---- MODULE Spec2Model ----
(***************************************************************************)
(* A model of the "Luna" Discord bot variants: the completion client       *)
(* (queryGemini, queryGitHubAI and their helpers), the messageCreate       *)
(* handler with its cooldown map, and the SQLite memory store.             *)
(*                                                                         *)
(* Variants (one program each):                                            *)
(*   "a1"  src/app.js 1-215        users table, Gemini -> GitHub AI        *)
(*   "a2"  src/app.js 217-517      keyword trigger, dedupe, cooldown       *)
(*   "a3"  src/app.js 519-704      gemini-pro, no secondary provider       *)
(*   "p0"  src/unnamed/part_000    handler-level fallback, no cooldown     *)
(*   "p1"  src/unnamed/part_001    Gemini -> GitHub AI, cooldown           *)
(*   "p2"  src/unnamed/part_002    handler-level fallback, no cooldown     *)
(*   "p3"  src/unnamed/part_003    API key, queryGemini throws             *)
(*   "p4"  src/unnamed/part_004    retrying variant (backoff, fallback)    *)
(*   "p5"  src/unnamed/part_005    both providers rethrow                  *)
(*   "p6a" src/unnamed/part_006 1-332    single retry on 404               *)
(*   "p6b" src/unnamed/part_006 334-485  placeholder queryGemini           *)
(***************************************************************************)
EXTENDS Integers, Sequences, FiniteSets, TLC

(***************************************************************************)
(* JavaScript values.  A value is a record tagged by t:                    *)
(*   "str" (s), "num" (n), "null", "undef", "arr" (a: sequence of values), *)
(*   "obj" (kv: sequence of <<key, value>> pairs, in insertion order).     *)
(***************************************************************************)
Str(s) == [t |-> "str", s |-> s]

Num(n) == [t |-> "num", n |-> n]

Null == [t |-> "null"]

Undef == [t |-> "undef"]

Arr(a) == [t |-> "arr", a |-> a]

Obj(kv) == [t |-> "obj", kv |-> kv]

\* JavaScript truthiness (the operand of ||, ! and if).
Truthy(x) ==
  CASE x.t = "str" -> x.s # ""
    [] x.t = "num" -> x.n # 0
    [] x.t = "null" -> FALSE
    [] x.t = "undef" -> FALSE
    [] OTHER -> TRUE

\* a || b
Or(a, b) == IF Truthy(a) THEN a ELSE b

\* a ?? b
Coalesce(a, b) == IF a.t \in {"null", "undef"} THEN b ELSE a

IsNullish(x) == x.t \in {"null", "undef"}

\* x?.k : undefined on null/undefined and on values without the property.
Field(x, k) ==
  IF x.t = "obj" /\ \E i \in 1..Len(x.kv) : x.kv[i][1] = k
  THEN x.kv[CHOOSE i \in 1..Len(x.kv) : x.kv[i][1] = k][2]
  ELSE Undef

\* x?.[i] with a 0-based index: arrays and strings are indexable.
Index(x, i) ==
  CASE x.t = "arr" /\ i < Len(x.a) -> x.a[i + 1]
    [] x.t = "str" /\ i < Len(x.s) -> Str(SubSeq(x.s, i + 1, i + 1))
    [] OTHER -> Undef

\* x.k without optional chaining throws a TypeError on null and undefined.
ThrowsOnField(x) == IsNullish(x)

(***************************************************************************)
(* Strings.                                                                *)
(***************************************************************************)
Min(a, b) == IF a < b THEN a ELSE b

Max(a, b) == IF a > b THEN a ELSE b

\* s.includes(sub)
Includes(s, sub) ==
  \E i \in 1..(Len(s) - Len(sub) + 1) : SubSeq(s, i, i + Len(sub) - 1) = sub

\* s.startsWith(p)
StartsWith(s, p) == Len(p) <= Len(s) /\ SubSeq(s, 1, Len(p)) = p

\* s.endsWith(p)
EndsWith(s, p) == Len(p) <= Len(s) /\ SubSeq(s, Len(s) - Len(p) + 1, Len(s)) = p

\* s.split('/').pop() : the text after the last '/', the whole of s without one.
LastSegment(s) ==
  LET slashes == {i \in 1..Len(s) : SubSeq(s, i, i) = "/"}
  IN IF slashes = {} THEN s
     ELSE SubSeq(s, (CHOOSE i \in slashes : \A j \in slashes : j <= i) + 1, Len(s))

\* s.slice(0, n)
Slice(s, n) == SubSeq(s, 1, Min(Len(s), n))

\* String(x) as Array.prototype.join sees an element: null and undefined
\* give "", an object gives "[object Object]".
RECURSIVE JoinSeq(_, _)
RECURSIVE ElemText(_)
ElemText(x) ==
  CASE x.t = "str" -> x.s
    [] x.t = "num" -> IF x.n = 0 THEN "0" ELSE "1"
    [] x.t = "arr" -> JoinSeq(x.a, ",")
    [] x.t = "obj" -> "[object Object]"
    [] OTHER -> ""

\* a.join(sep) on a sequence of values
JoinSeq(a, sep) ==
  IF Len(a) = 0 THEN ""
  ELSE IF Len(a) = 1 THEN ElemText(a[1])
  ELSE ElemText(a[1]) \o sep \o JoinSeq(Tail(a), sep)

\* JSON.stringify(x) of a parsed JSON value.
RECURSIVE Stringify(_)
RECURSIVE StringifyElems(_)
RECURSIVE StringifyPairs(_)
StringifyElems(a) ==
  IF Len(a) = 0 THEN ""
  ELSE IF Len(a) = 1 THEN Stringify(a[1])
  ELSE Stringify(a[1]) \o "," \o StringifyElems(Tail(a))

StringifyPairs(kv) ==
  IF Len(kv) = 0 THEN ""
  ELSE LET one == "\"" \o kv[1][1] \o "\":" \o Stringify(kv[1][2])
       IN IF Len(kv) = 1 THEN one ELSE one \o "," \o StringifyPairs(Tail(kv))

Stringify(x) ==
  CASE x.t = "str" -> "\"" \o x.s \o "\""
    [] x.t = "num" -> IF x.n = 0 THEN "0" ELSE "1"
    [] x.t = "arr" -> "[" \o StringifyElems(x.a) \o "]"
    [] x.t = "obj" -> "{" \o StringifyPairs(x.kv) \o "}"
    [] OTHER -> "null"

(***************************************************************************)
(* The outcome of a call: a returned value or a thrown exception.          *)
(***************************************************************************)
Ret(v) == [thrown |-> FALSE, val |-> v]

Throw == [thrown |-> TRUE, val |-> Undef]

\* a.map(c => c.text): c.text throws a TypeError on a null or undefined element.
MapTextThrows(a) == \E i \in 1..Len(a) : ThrowsOnField(a[i])

MapText(a) == [i \in 1..Len(a) |-> Field(a[i], "text")]

(***************************************************************************)
(* Reply text extraction, one operator per variant.                        *)
(***************************************************************************)
\* data?.candidates?.[0]
Cand0(data) == Index(Field(data, "candidates"), 0)

\* data?.output?.[0]?.content?.[0]?.text
OutputText(data) ==
  Field(Index(Field(Index(Field(data, "output"), 0), "content"), 0), "text")

\* a1, p1: queryGemini's return expression on a success status.
Extract_a1(data) ==
  Ret(Or(Or(Field(Index(Field(Cand0(data), "content"), 0), "text"),
            OutputText(data)),
         Str("I could not generate a reply.")))

\* a2: the candidate chain, then JSON.stringify(data).slice(0, 2000).
Extract_a2(data) ==
  LET content == Field(Cand0(data), "content")
      c1 == Field(Index(content, 0), "text")
      mapThrows == ~IsNullish(content) /\ ~Truthy(c1)
                   /\ (content.t # "arr" \/ MapTextThrows(content.a))
      c2 == IF IsNullish(content) THEN Undef
            ELSE Str(JoinSeq(MapText(content.a), "\n"))
      candidate == IF Truthy(c1) THEN c1
                   ELSE Or(Or(Or(c2, OutputText(data)),
                              Field(data, "generatedText")), Null)
  IN IF mapThrows THEN Throw
     ELSE IF Truthy(candidate) THEN Ret(candidate)
     ELSE Ret(Str(Slice(Stringify(data), 2000)))

\* a3: candidates[0].content.parts[0].text or a fixed text.
Extract_a3(data) ==
  Ret(Or(Field(Index(Field(Field(Cand0(data), "content"), "parts"), 0), "text"),
         Str("No response from Gemini")))

\* p0: output[0].content[0].text or a fixed text.
Extract_p0(data) ==
  Ret(Or(OutputText(data), Str("Sorry, I could not generate a reply.")))

\* p2: candidates[0].content (whatever its type) or a fixed text.
Extract_p2(data) ==
  Ret(Or(Field(Cand0(data), "content"), Str("Gemini returned no response")))

\* p5: candidates[0].content (whatever its type) or a fixed text.
Extract_p5(data) ==
  Ret(Or(Field(Cand0(data), "content"),
         Str("Gemini could not generate a response.")))

\* p3: json.candidates[0].content, no optional chaining.
Extract_p3(data) ==
  LET cands == Field(data, "candidates")
      c0 == Index(cands, 0)
  IN IF IsNullish(data) \/ IsNullish(cands) \/ IsNullish(c0) THEN Throw
     ELSE Ret(Field(c0, "content"))

\* p4, p6a: parseGeminiResponse.  The try block's result; a TypeError inside
\* it is turned into the fixed text by the catch.
parseGeminiResponse(data) ==
  LET cand == Or(Cand0(data), Index(Field(Field(data, "response"), "candidates"), 0))
      content == Or(Or(Field(cand, "content"), Field(cand, "output")), cand)
      first == Index(content, 0)
      parts == Field(content, "parts")
      tail == IF Truthy(Field(data, "generatedText")) THEN Field(data, "generatedText")
              ELSE IF Truthy(Field(data, "output_text")) THEN Field(data, "output_text")
              ELSE Str(Slice(Stringify(data), 2000))
      caught == Str("Sorry, I could not parse the AI response.")
  IN IF ~Truthy(cand) THEN tail
     ELSE IF content.t = "str" THEN content
     ELSE IF content.t = "arr" /\ first.t = "str"
       THEN Str(JoinSeq(content.a, "\n"))
     ELSE IF content.t = "arr" /\ Truthy(Field(first, "text"))
       THEN IF MapTextThrows(content.a) THEN caught
            ELSE Str(JoinSeq(MapText(content.a), "\n"))
     ELSE IF Truthy(Field(Index(parts, 0), "text"))
       THEN IF parts.t # "arr" \/ MapTextThrows(parts.a) THEN caught
            ELSE Str(JoinSeq(MapText(parts.a), "\n"))
     ELSE tail

(***************************************************************************)
(* Response bodies of the primary provider on a success status.            *)
(***************************************************************************)
TextPart(s) == Obj(<< <<"text", Str(s)>> >>)

WithCandidate(c) == Obj(<< <<"candidates", Arr(<<c>>)>> >>)

WithContent(c) == WithCandidate(Obj(<< <<"content", c>> >>))

GeminiBodies ==
  { WithContent(Obj(<< <<"parts", Arr(<<TextPart("Hi there")>>)>> >>)),
    WithContent(Obj(<< <<"parts", Arr(<<TextPart("")>>)>> >>)),
    WithContent(Obj(<< <<"parts", Arr(<<TextPart("Hi"), Null>>)>> >>)),
    WithContent(Arr(<<TextPart("Hi there")>>)),
    WithContent(Arr(<<TextPart(""), TextPart("")>>)),
    WithContent(Arr(<<Str("")>>)),
    WithContent(Str("Hi there")),
    WithContent(Null),
    Obj(<< <<"output", Arr(<<Obj(<< <<"content", Arr(<<TextPart("Hi there")>>)>> >>)>>)>> >>),
    Obj(<< <<"generatedText", Str("Hi there")>> >>),
    Obj(<< <<"candidates", Arr(<<>>)>> >>),
    Obj(<<>>),
    Null }

(***************************************************************************)
(* Characters, digits and numbers in strings.                              *)
(***************************************************************************)
UpperChars == "ABCDEFGHIJKLMNOPQRSTUVWXYZ"

LowerChars == "abcdefghijklmnopqrstuvwxyz"

DigitChars == "0123456789"

\* One character of s.toLowerCase().
LowerChar(c) ==
  IF \E i \in 1..26 : SubSeq(UpperChars, i, i) = c
  THEN LET i == CHOOSE j \in 1..26 : SubSeq(UpperChars, j, j) = c
       IN SubSeq(LowerChars, i, i)
  ELSE c

\* s.toLowerCase()
RECURSIVE ToLower(_)
ToLower(s) ==
  IF Len(s) = 0 THEN ""
  ELSE LowerChar(SubSeq(s, 1, 1)) \o ToLower(SubSeq(s, 2, Len(s)))

IsDigit(c) == \E i \in 1..10 : SubSeq(DigitChars, i, i) = c

\* \d+
AllDigits(s) == Len(s) > 0 /\ \A i \in 1..Len(s) : IsDigit(SubSeq(s, i, i))

DigitVal(c) == (CHOOSE i \in 1..10 : SubSeq(DigitChars, i, i) = c) - 1

\* parseInt(s, 10) of a digit string
RECURSIVE ParseInt(_)
ParseInt(s) ==
  IF Len(s) = 0 THEN 0
  ELSE ParseInt(SubSeq(s, 1, Len(s) - 1)) * 10 + DigitVal(SubSeq(s, Len(s), Len(s)))

RECURSIVE Pow(_, _)
Pow(b, e) == IF e = 0 THEN 1 ELSE b * Pow(b, e - 1)

CeilDiv(a, b) == (a + b - 1) \div b

\* The positions of character c in s.
Positions(s, c) == {i \in 1..Len(s) : SubSeq(s, i, i) = c}

(***************************************************************************)
(* parseRetryDelay (part_004): the milliseconds of a retryDelay hint,      *)
(* NoDelay for null.  Fractions are computed exactly.                      *)
(***************************************************************************)
NoDelay == -1

\* /^(\d+(?:\.\d+)?)s$/ : Math.ceil(parseFloat(m[1]) * 1000), or NoDelay.
SecondsForm(rd) ==
  IF ~EndsWith(rd, "s") THEN NoDelay
  ELSE LET body == SubSeq(rd, 1, Len(rd) - 1)
           dots == Positions(body, ".")
       IN IF AllDigits(body) THEN ParseInt(body) * 1000
          ELSE IF Cardinality(dots) # 1 THEN NoDelay
          ELSE LET d == CHOOSE i \in dots : TRUE
                   whole == SubSeq(body, 1, d - 1)
                   frac == SubSeq(body, d + 1, Len(body))
               IN IF AllDigits(whole) /\ AllDigits(frac)
                  THEN ParseInt(whole) * 1000
                       + CeilDiv(ParseInt(frac) * 1000, Pow(10, Len(frac)))
                  ELSE NoDelay

\* (\d+)S at the end of an ISO duration, lower-cased: its seconds, or NoDelay.
IsoSeconds(rest) ==
  IF rest = "" THEN 0
  ELSE IF EndsWith(rest, "s") /\ AllDigits(SubSeq(rest, 1, Len(rest) - 1))
  THEN ParseInt(SubSeq(rest, 1, Len(rest) - 1))
  ELSE NoDelay

\* /^PT(?:(\d+)M)?(?:(\d+)S)?$/i : (mins * 60 + secs) * 1000, or NoDelay.
IsoForm(rd) ==
  LET low == ToLower(rd)
  IN IF ~StartsWith(low, "pt") THEN NoDelay
     ELSE LET rest == SubSeq(low, 3, Len(low))
              ms == Positions(rest, "m")
          IN IF ms = {} THEN
               (IF IsoSeconds(rest) = NoDelay THEN NoDelay ELSE IsoSeconds(rest) * 1000)
             ELSE LET m == CHOOSE i \in ms : \A j \in ms : i <= j
                      mins == SubSeq(rest, 1, m - 1)
                      after == SubSeq(rest, m + 1, Len(rest))
                  IN IF AllDigits(mins) /\ IsoSeconds(after) # NoDelay
                     THEN (ParseInt(mins) * 60 + IsoSeconds(after)) * 1000
                     ELSE NoDelay

parseRetryDelay(detail) ==
  IF ~Truthy(detail) THEN NoDelay
  ELSE LET rd == Field(detail, "retryDelay")
       IN IF rd.t # "str" THEN NoDelay
          ELSE IF SecondsForm(rd.s) # NoDelay THEN SecondsForm(rd.s)
          ELSE IsoForm(rd.s)

(***************************************************************************)
(* Model discovery.  A listing is the sequence of the names of the models  *)
(* the provider lists (data.models[i].name); NoModel stands for null.      *)
(***************************************************************************)
NoModel == ""

\* models.find(m => P(m.name)): the first name satisfying P, or NoModel.
FirstMatch(names, P(_)) ==
  IF \E i \in 1..Len(names) : P(names[i])
  THEN names[CHOOSE i \in 1..Len(names) :
               P(names[i]) /\ \A j \in 1..(i - 1) : ~P(names[j])]
  ELSE NoModel

\* GEMINI_MODEL_ENV.startsWith('models/') ? GEMINI_MODEL_ENV : `models/${...}`
Normalized(envModel) ==
  IF StartsWith(envModel, "models/") THEN envModel ELSE "models/" \o envModel

\* n === cand || n.endsWith(`/${key}`) || n.includes(key)
NameMatches(n, cand) ==
  LET key == LastSegment(cand)
  IN n = cand \/ EndsWith(n, "/" \o key) \/ Includes(n, key)

preferredKeys ==
  <<"gemini-2.5-flash", "gemini-2.5-pro", "gemini-2.0-flash", "gemini-2.0", "gemini-2.5">>

\* The first preferred key, in order, that some listed name contains; 0 for none.
FirstKeyIndex(names, keys) ==
  IF \E k \in 1..Len(keys) : \E i \in 1..Len(names) : Includes(names[i], keys[k])
  THEN CHOOSE k \in 1..Len(keys) :
         /\ \E i \in 1..Len(names) : Includes(names[i], keys[k])
         /\ \A k2 \in 1..(k - 1) : \A i \in 1..Len(names) : ~Includes(names[i], keys[k2])
  ELSE 0

\* models.find(m => m.name.toLowerCase().includes('gemini')), else models[0].name
GeminiOrFirst(names) ==
  LET IsGemini(n) == Includes(ToLower(n), "gemini")
  IN IF FirstMatch(names, IsGemini) # NoModel THEN FirstMatch(names, IsGemini)
     ELSE names[1]

\* A pickPreferredModel that takes the first listed model containing any
\* preferred key, whatever the order of the keys.
pickPreferredModel_ListingOrder(names, envModel) ==
  LET MatchesEnv(n) == NameMatches(n, Normalized(envModel))
      HasAnyKey(n) == \E k \in 1..Len(preferredKeys) : Includes(n, preferredKeys[k])
  IN IF Len(names) = 0 THEN NoModel
     ELSE IF envModel # "" /\ FirstMatch(names, MatchesEnv) # NoModel
       THEN FirstMatch(names, MatchesEnv)
     ELSE IF FirstMatch(names, HasAnyKey) # NoModel THEN FirstMatch(names, HasAnyKey)
     ELSE GeminiOrFirst(names)

\* pickPreferredModel of the retrying variant (part_004).
pickPreferredModel(names, envModel) ==
  LET MatchesEnv(n) == NameMatches(n, Normalized(envModel))
      k == FirstKeyIndex(names, preferredKeys)
      HasKey(n) == Includes(n, preferredKeys[k])
  IN IF Len(names) = 0 THEN NoModel
     ELSE IF envModel # "" /\ FirstMatch(names, MatchesEnv) # NoModel
       THEN FirstMatch(names, MatchesEnv)
     ELSE IF k # 0 THEN FirstMatch(names, HasKey)
     ELSE GeminiOrFirst(names)

preferredKeys_p6a ==
  <<"gemini-2.5-pro", "gemini-2.5-flash", "gemini-2.0-flash", "gemini-2.5",
    "gemini-2.0", "gemini-pro">>

\* pickPreferredModel of the single-retry variant (part_006): the override is
\* matched as given, without the "models/" normalisation.
pickPreferredModel_p6a(names, envModel) ==
  LET MatchesEnv(n) ==
        n = envModel \/ EndsWith(n, "/" \o envModel) \/ Includes(n, envModel)
      k == FirstKeyIndex(names, preferredKeys_p6a)
      HasKey(n) == Includes(n, preferredKeys_p6a[k])
  IN IF Len(names) = 0 THEN NoModel
     ELSE IF envModel # "" /\ FirstMatch(names, MatchesEnv) # NoModel
       THEN FirstMatch(names, MatchesEnv)
     ELSE IF k # 0 THEN FirstMatch(names, HasKey)
     ELSE GeminiOrFirst(names)

DefaultModel(v) ==
  IF v = "p4" THEN "models/gemini-2.5-flash" ELSE "models/gemini-2.5-pro"

\* ensureModel once the listing has arrived (the cache was empty).
ensureModelResolve(v, names, envModel) ==
  IF Len(names) = 0
  THEN (IF envModel # "" THEN Normalized(envModel) ELSE DefaultModel(v))
  ELSE IF v = "p4" THEN pickPreferredModel(names, envModel)
  ELSE pickPreferredModel_p6a(names, envModel)

FALLBACK_MODEL_CANDIDATES ==
  <<"models/gemini-2.5-flash", "models/gemini-2.0-flash", "models/gemini-2.5",
    "models/gemini-2.0">>

\* Whether a model name matches some entry of FALLBACK_MODEL_CANDIDATES.
MatchesCandidate(n) ==
  \E c \in 1..Len(FALLBACK_MODEL_CANDIDATES) : NameMatches(n, FALLBACK_MODEL_CANDIDATES[c])

\* tryFallbackModel once the listing has arrived: the listed name matching the
\* earliest candidate, else the first listed name, the override, the default.
tryFallbackModel(names, envModel) ==
  LET Hit(c) == \E i \in 1..Len(names) : NameMatches(names[i], FALLBACK_MODEL_CANDIDATES[c])
      MatchesOf(c) == LET M(n) == NameMatches(n, FALLBACK_MODEL_CANDIDATES[c])
                      IN FirstMatch(names, M)
  IN IF \E c \in 1..Len(FALLBACK_MODEL_CANDIDATES) : Hit(c)
     THEN MatchesOf(CHOOSE c \in 1..Len(FALLBACK_MODEL_CANDIDATES) :
                      Hit(c) /\ \A c2 \in 1..(c - 1) : ~Hit(c2))
     ELSE IF Len(names) > 0 THEN names[1]
     ELSE IF envModel # "" THEN Normalized(envModel)
     ELSE "models/gemini-2.5-flash"

(***************************************************************************)
(* The 429 branch of the retrying variant (part_004).                      *)
(* An error response is [json, txt, hdr]: the parsed body (Null when the   *)
(* text is no JSON), its text, and the Retry-After header ("" for none).   *)
(***************************************************************************)
MAX_ATTEMPTS == 5

BACKOFF_CAP_MS == 60000

\* The first detail, in order, whose parseRetryDelay is truthy; NoDelay for none.
RECURSIVE FirstHint(_)
FirstHint(details) ==
  IF Len(details) = 0 THEN NoDelay
  ELSE IF parseRetryDelay(details[1]) > 0 THEN parseRetryDelay(details[1])
  ELSE FirstHint(Tail(details))

\* waitMs after the error details have been read.
HintMs(resp) ==
  LET details == Field(Field(resp.json, "error"), "details")
  IN IF details.t = "arr" THEN FirstHint(details.a) ELSE NoDelay

\* waitMs after the Retry-After header: Math.ceil(Number(hdr) * 1000) when
\* waitMs is still unset and the header is a number (digit strings are
\* the numbers modelled).
WaitMs(resp) ==
  IF HintMs(resp) > 0 THEN HintMs(resp)
  ELSE IF resp.hdr # "" /\ AllDigits(resp.hdr) THEN ParseInt(resp.hdr) * 1000
  ELSE NoDelay

\* jsonBody?.error?.message || txt || ''
ErrMsg(resp) ==
  LET m == Field(Field(resp.json, "error"), "message")
  IN IF Truthy(m) THEN m.s ELSE resp.txt

SaysNoFreeQuota(msg) ==
  \/ Includes(ToLower(msg), "doesn't have a free quota")
  \/ Includes(ToLower(msg), "does not have a free quota")

\* Sampled values of Math.random() * n, which lies in [0, n).
RandomBelow(n) == {0, n - 1}

\* A backoff that doubles once more and has no cap.
Backoff_Uncapped(att, jitter) == Pow(2, att + 1) * 1000 + jitter

\* Math.min(60_000, Math.pow(2, attempt) * 1000 + jitter)
Backoff(att, jitter) == Min(BACKOFF_CAP_MS, Pow(2, att) * 1000 + jitter)

\* A 429 branch that ignores waitMs.
SleepAfter429_NoHint(w, att, jitter) == Backoff(att, jitter)

\* The sleep of a 429 that did not switch model: waitMs if set, else the
\* capped exponential backoff of the attempt.
SleepAfter429(w, att, jitter) == IF w > 0 THEN w ELSE Backoff(att, jitter)

\* A switch that waits as long as the first backoff.
SwitchSleep_AsBackoff(jitter) == Backoff(1, jitter)

\* sleep(1000 + Math.random() * 500) after a model switch.
SwitchSleep(jitter) == 1000 + jitter

\* The switch test: newModel && newModel !== modelName.
Switches(newModel, current) == newModel # NoModel /\ newModel # current

ErrorBody(message, details) ==
  Obj(<< <<"error", Obj(<< <<"code", Num(1)>>, <<"message", Str(message)>>,
                           <<"details", Arr(details)>> >>)>> >>)

RetryInfo(delay) == Obj(<< <<"retryDelay", Str(delay)>> >>)

Help == Obj(<< <<"reason", Str("RATE_LIMIT_EXCEEDED")>> >>)

ErrorMessages ==
  { "Resource has been exhausted (e.g. check quota).",
    "Gemini 2.5 Pro Preview doesn't have a free quota tier.",
    "This model does not have a free quota." }

DetailLists ==
  { <<>>, <<RetryInfo("5s")>>, <<Help, RetryInfo("PT1M5S")>>,
    <<RetryInfo("0s"), RetryInfo("1.5s")>>, <<RetryInfo("soon")>> }

RetryAfterHeaders == {"", "3", "Wed, 21 Oct 2026 07:28:00 GMT"}

Responses429 ==
  { [json |-> ErrorBody(m, d), txt |-> Stringify(ErrorBody(m, d)), hdr |-> h] :
      m \in ErrorMessages, d \in DetailLists, h \in RetryAfterHeaders }
  \cup { [json |-> Null, txt |-> "Too Many Requests", hdr |-> h] :
           h \in RetryAfterHeaders }

(***************************************************************************)
(* The secondary provider (queryGitHubAI): response bodies and the         *)
(* extraction of each variant that has one.                                *)
(***************************************************************************)
Choice(c) == Obj(<< <<"choices", Arr(<<Obj(<< <<"message", Obj(<< <<"content", c>> >>)>> >>)>>)>> >>)

GitHubBodies ==
  { Choice(Str("Hello from the fallback")), Choice(Str("")), Choice(Null),
    Obj(<< <<"choices", Arr(<<>>)>> >>), Obj(<<>>) }

\* a1, p1, p2: response.choices[0].message.content
GitHubExtract_a1(resp) ==
  LET choices == Field(resp, "choices")
      c0 == Index(choices, 0)
      message == Field(c0, "message")
  IN IF IsNullish(choices) \/ IsNullish(c0) \/ IsNullish(message) THEN Throw
     ELSE Ret(Field(message, "content"))

\* a2: resp.choices?.[0]?.message?.content ?? "I couldn't generate a reply."
GitHubExtract_a2(resp) ==
  Ret(Coalesce(Field(Field(Index(Field(resp, "choices"), 0), "message"), "content"),
               Str("I couldn't generate a reply.")))

\* p0: response.choices[0]?.message?.content || "Sorry, I could not generate a reply."
GitHubExtract_p0(resp) ==
  LET choices == Field(resp, "choices")
  IN IF IsNullish(choices) THEN Throw
     ELSE Ret(Or(Field(Field(Index(choices, 0), "message"), "content"),
                 Str("Sorry, I could not generate a reply.")))

\* p5: response.choices?.[0]?.message?.content || 'GitHub AI could not generate a response.'
GitHubExtract_p5(resp) ==
  Ret(Or(Field(Field(Index(Field(resp, "choices"), 0), "message"), "content"),
         Str("GitHub AI could not generate a response.")))

(***************************************************************************)
(* Variants and their fixed texts.                                         *)
(***************************************************************************)
Variants == {"a1", "a2", "a3", "p0", "p1", "p2", "p3", "p4", "p5", "p6a", "p6b"}

\* queryGemini's catch returns queryGitHubAI(prompt).
InnerFallback == {"a1", "a2", "p1"}

\* The handler calls queryGitHubAI when queryGemini gave nothing.
HandlerFallback == {"p0", "p2", "p5"}

HasSecondary == InnerFallback \cup HandlerFallback

\* ensureModel / listAvailableModels exist.
Discovery == {"p4", "p6a"}

\* One memory row per message (content and response) rather than two.
OneRow == {"a1", "a2", "p1"}

\* What queryGemini's catch returns where it returns a text.
GeminiApology(vv) ==
  IF vv = "p4" THEN "Sorry, I cannot reach the AI right now (quota or model issue)."
  ELSE "Sorry, I cannot reach the AI right now."

\* queryGitHubAI without GITHUB_TOKEN.
NoTokenText(vv) ==
  IF vv = "a2" THEN "Sorry, I can't think right now (no fallback available)."
  ELSE "No GitHub AI token provided."

\* queryGitHubAI's catch.
GitHubApology(vv) ==
  IF vv = "a2" THEN "Sorry, I cannot generate a reply right now (fallback failed)."
  ELSE "Sorry, I cannot generate a reply right now."

\* The handler's last resort (p0, p2).
HandlerApology(vv) ==
  IF vv = "p0" THEN "Sorry, I couldn't generate a response."
  ELSE "Sorry, I couldn't generate a response at this time."

\* The outcome of queryGemini's success path on a body.
ExtractReply(vv, data) ==
  CASE vv \in {"a1", "p1"} -> Extract_a1(data)
    [] vv = "a2" -> Extract_a2(data)
    [] vv = "a3" -> Extract_a3(data)
    [] vv = "p0" -> Extract_p0(data)
    [] vv = "p2" -> Extract_p2(data)
    [] vv = "p3" -> Extract_p3(data)
    [] vv = "p5" -> Extract_p5(data)
    [] OTHER -> Ret(parseGeminiResponse(data))

\* What queryGemini does when its try block fails: "github" (call the
\* secondary provider and return its result), or the outcome it ends with.
OnPrimaryFailure(vv) ==
  CASE vv \in InnerFallback -> "github"
    [] vv \in {"p0", "p2"} -> "null"
    [] vv \in {"p3", "p5"} -> "throw"
    [] OTHER -> "apology"

\* queryGitHubAI's outcome: failed is a rejected call (network error, error
\* status), else out is the provider's response.
GitHubResult(vv, failed, out) ==
  LET caught == CASE vv \in {"p0", "p2"} -> Ret(Null)
                  [] vv = "p5" -> Throw
                  [] OTHER -> Ret(Str(GitHubApology(vv)))
      r == CASE vv = "a2" -> GitHubExtract_a2(out)
             [] vv = "p0" -> GitHubExtract_p0(out)
             [] vv = "p5" -> GitHubExtract_p5(out)
             [] OTHER -> GitHubExtract_a1(out)
  IN IF failed \/ r.thrown THEN caught ELSE r

(***************************************************************************)
(* Prompt construction.                                                    *)
(***************************************************************************)
\* mems.map(m => `Memory: ${m}`).join('\n')
RECURSIVE MemoryText(_)
MemoryText(mems) ==
  IF Len(mems) = 0 THEN ""
  ELSE IF Len(mems) = 1 THEN "Memory: " \o mems[1]
  ELSE "Memory: " \o mems[1] \o "\n" \o MemoryText(Tail(mems))

PERSONA == "You are \"Luna\", a playful, witty AI who loves strawberries and space."

\* The prompt the handler builds from the display name, the message text and
\* the fetched memories (a1, a2, p1 fetch one joined text, passed as one entry).
BuildPrompt(vv, name, text, mems) ==
  LET memoryText == MemoryText(mems)
      recent == IF Len(mems) = 0 THEN "" ELSE mems[1]
  IN CASE vv \in {"a1", "p1"} -> "User (" \o name \o "): " \o text \o "\n" \o recent
       [] vv = "a2" ->
            "You are Luna, a playful, witty AI who loves strawberries and space.\n"
            \o (IF recent # "" THEN "Recent memory:\n" \o recent \o "\n\n" ELSE "")
            \o "User: " \o name \o "\nMessage: " \o text
            \o "\n\nRespond concisely (1-6 sentences), friendly and helpful. If appropriate, recall prior memory from the Recent memory section."
       [] vv = "p0" -> "You are Luna, a playful AI.\nUser (" \o name \o "): " \o text
                       \o "\n" \o memoryText
       [] vv = "p2" -> "User (" \o name \o "): " \o text \o "\n" \o memoryText
       [] vv = "p3" -> "\n" \o PERSONA
                       \o "\nParticipate naturally in conversations, stay friendly, concise, and remember past chats.\n\n"
                       \o memoryText \o "\nUser: " \o text
       [] vv = "p5" -> "You are \"Luna\", a playful AI.\nUser (" \o name \o "): " \o text
                       \o "\n" \o memoryText
       [] vv = "p6b" -> PERSONA \o "\nUser (" \o name \o "): " \o text \o "\n" \o memoryText
       [] OTHER -> PERSONA \o "\n" \o memoryText \o "\nUser: " \o text

\* prompt.split('\n').pop()
LastLine(s) ==
  LET nls == Positions(s, "\n")
  IN IF nls = {} THEN s
     ELSE SubSeq(s, (CHOOSE i \in nls : \A j \in nls : j <= i) + 1, Len(s))

\* The placeholder queryGemini of p6b.
Placeholder(prompt0) == "Hello, " \o LastLine(prompt0) \o "! I am Luna, your cosmic AI"

NonEmptyString(x) == x.t = "str" /\ x.s # ""

\* message.reply(x) delivers a non-empty text; Discord rejects an empty
\* message, and a null, array or object argument carries no content.
Sendable(x) == NonEmptyString(x)

(***************************************************************************)
(* Bounds and inputs of the completion-client specification.               *)
(***************************************************************************)
\* Messages handled one after the other in one run of the process.
MaxMsgs == 2

\* Models in one listing.
MaxListing == 2

ModelNames ==
  { "models/gemini-2.5-flash", "models/gemini-2.0-flash", "models/gemini-2.5-pro",
    "models/text-bison-001" }

\* What listAvailableModels may return: <<>> also stands for its failures.
Listings == UNION {[1..n -> ModelNames] : n \in 0..MaxListing}

\* Values of the GEMINI_MODEL override.
EnvModels == {"", "gemini-2.5-pro"}

Contents == {"hi luna", "what is 2+2?"}

DisplayName == "Ann"

\* What fetchRecentMemories may hand to the prompt.
FetchedMemories(vv) ==
  CASE vv \in {"a1", "p1"} -> {<<>>, <<"User: hello\nLuna: Hi there">>}
    [] vv = "a2" ->
         {<<>>, <<"User (mood:neutral, personality:neutral): hello\nLuna: Hi there">>}
    [] OTHER -> {<<>>, <<"hello", "Luna: Hi there">>}

Users == {"u1", "u2"}

\* Date.now() when the process starts, in milliseconds.
Epoch == 100000

\* The handlers that may be inside getAccessToken at the same time.
Callers == {1, 2}

\* No queryGemini call made yet.
NoModelCall == [pc |-> "none", modelName |-> NoModel, attempt |-> 0]

NoRequest == [caller |-> 0, model |-> NoModel, inForce |-> NoModel]

\* No insert made yet.
NoStoreCall == [pc |-> "none", user |-> "", msg |-> 0, rep |-> 0]

\* No getAccessToken call made yet.
NoCall == [pc |-> "none", at |-> 0, seen |-> 0, contacted |-> FALSE, got |-> ""]

\* No helper has been applied yet.
NoArgs == [fn |-> "none"]

\* No fetchRecentMemories has returned yet.
NoFetch == [user |-> "", limit |-> 0, size |-> 0, ok |-> FALSE, rows |-> <<>>]

(***************************************************************************)
(* State.                                                                  *)
(***************************************************************************)
VARIABLES
  v,               \* the variant that is running
  envModel,        \* GEMINI_MODEL
  githubToken,     \* whether GITHUB_TOKEN is configured
  cachedToken,     \* "" for null
  cachedModelName, \* NoModel for null
  msgCount,        \* messages accepted so far
  hpc,             \* the handler's position
  content,         \* message.content
  prompt,          \* the prompt the handler built
  reply,           \* the handler's reply variable
  sent,            \* what message.reply delivered (Undef: nothing)
  stored,          \* which records of the message in hand were inserted
  qpc,             \* queryGemini's position
  qres,            \* queryGemini's outcome once qpc = "done"
  attempt,         \* part_004's attempt counter
  modelName,       \* queryGemini's local modelName
  waitMs,          \* part_004's waitMs while the 429 branch awaits tryFallbackModel
  pendingSleep,    \* the argument of the sleep in progress
  gpc,             \* queryGitHubAI's position
  gres,            \* queryGitHubAI's outcome once gpc = "done"
  gCalls,          \* invocations of queryGitHubAI for this message
  gPrompt,         \* the prompt queryGitHubAI was given
  nReq,            \* generateContent requests issued for this message
  prev,            \* the last primary response of this call (model: the one a
                   \* no-free-quota 429 refused)
  owed,            \* milliseconds of that response's retry delay not yet slept
  primaryFailed,   \* the primary provider failed for this message
  now,             \* Date.now() in milliseconds
  nTicks,          \* clock advances so far
  COOLDOWN,        \* the cooldown map: user id -> stored timestamp (0: no entry)
  accepted,        \* the messages that passed trigger and cooldown: [user, at]
  running,         \* handlers that were accepted and have not ended
  replied,         \* the replies sent: [msg (index in accepted), user, at]
  handledMessages, \* app.js: the message ids marked as handled
  timers,          \* the pending setTimeout callbacks of markHandled: [id, due]
  handled,         \* the marked messages, in order: [id, at]
  modelCalls,      \* per caller, its queryGemini call: [pc, modelName, attempt]
  switchedTo,      \* the model the cache was last switched to, while in force
  lastRequest,     \* the last generateContent request: [caller, model, inForce]
  storeCalls,      \* per caller, its handler's inserts: [pc, msg, rep] (row ids)
  seconds,         \* the database clock (CURRENT_TIMESTAMP)
  memories,        \* the rows of the memories table, in insertion order
  sqlite_sequence, \* the largest id given so far (AUTOINCREMENT never reuses one)
  fetched,         \* the last fetchRecentMemories: its arguments, the size of the
                   \* table it read, whether the query succeeded, and the result
  tokenExpiresAt,  \* when the cached token is assumed to expire (0 at start)
  tokenCalls,      \* per caller, its latest getAccessToken call
  fetches,         \* the token fetches that completed: [t, token], in order
  args,            \* the arguments of the last call of a helper applied on its own
  result           \* what that call returned

vars ==
  <<v, envModel, githubToken, cachedToken, cachedModelName, msgCount, hpc, content,
    prompt, reply, sent, stored, qpc, qres, attempt, modelName, waitMs, pendingSleep,
    gpc,
    gres, gCalls, gPrompt, nReq, prev, owed, primaryFailed, now, nTicks, COOLDOWN,
    accepted, running, replied, handledMessages, timers, handled, modelCalls,
    switchedTo, lastRequest, storeCalls, seconds, memories, sqlite_sequence, fetched, tokenExpiresAt,
    tokenCalls,
    fetches, args, result>>

config == <<v, envModel, githubToken>>

cdvars == <<now, nTicks, COOLDOWN, accepted, running, replied>>

memvars == <<seconds, memories, sqlite_sequence, fetched>>

\* What no step of the completion client and of the handler around it touches.
tokvars == <<tokenExpiresAt, tokenCalls, fetches>>

purevars == <<args, result>>

ddvars == <<handledMessages, timers, handled>>

callvars == <<modelCalls, switchedTo, lastRequest, storeCalls>>

static == <<config, cdvars, ddvars, callvars, memvars, tokvars, purevars>>

clientvars ==
  <<envModel, githubToken, cachedToken, cachedModelName, msgCount, hpc, content, prompt,
    reply, sent, stored, qpc, qres, attempt, modelName, waitMs, pendingSleep, gpc, gres,
    gCalls,
    gPrompt, nReq, prev, owed, primaryFailed>>

caches == <<cachedToken, cachedModelName>>

hvars == <<msgCount, hpc, content, prompt, reply, sent, stored>>

loopvars == <<attempt, modelName, waitMs, pendingSleep>>

gvars == <<gpc, gres, gCalls, gPrompt>>

reqvars == <<nReq, prev, owed>>

NoPrev == [kind |-> "none", d |-> NoDelay, quota |-> FALSE, model |-> NoModel]

Init ==
  /\ v \in Variants
  /\ envModel \in (IF v \in Discovery THEN EnvModels ELSE {""})
  /\ githubToken \in (IF v \in InnerFallback THEN BOOLEAN
                      ELSE IF v \in HandlerFallback THEN {TRUE} ELSE {FALSE})
  /\ cachedToken = ""
  /\ cachedModelName = NoModel
  /\ msgCount = 0
  /\ hpc = "idle"
  /\ content = ""
  /\ prompt = ""
  /\ reply = Undef
  /\ sent = Undef
  /\ stored = {}
  /\ qpc = "idle"
  /\ qres = Ret(Undef)
  /\ attempt = 0
  /\ modelName = NoModel
  /\ waitMs = NoDelay
  /\ pendingSleep = 0
  /\ gpc = "idle"
  /\ gres = Ret(Undef)
  /\ gCalls = 0
  /\ gPrompt = ""
  /\ nReq = 0
  /\ prev = NoPrev
  /\ owed = 0
  /\ primaryFailed = FALSE
  /\ now = Epoch
  /\ nTicks = 0
  /\ COOLDOWN = [u \in Users |-> 0]
  /\ accepted = <<>>
  /\ running = 0
  /\ replied = <<>>
  /\ handledMessages = {}
  /\ timers = {}
  /\ handled = <<>>
  /\ modelCalls = [c \in Callers |-> NoModelCall]
  /\ switchedTo = NoModel
  /\ lastRequest = NoRequest
  /\ storeCalls = [c \in Callers |-> NoStoreCall]
  /\ seconds = 0
  /\ memories = <<>>
  /\ sqlite_sequence = 0
  /\ fetched = NoFetch
  /\ tokenExpiresAt = 0
  /\ tokenCalls = [c \in Callers |-> NoCall]
  /\ fetches = <<>>
  /\ args = NoArgs
  /\ result = NoModel

(***************************************************************************)
(* The handler up to the call of queryGemini.                              *)
(***************************************************************************)
\* A message that passed the trigger policy and the cooldown.
NewMessage ==
  /\ hpc \in {"idle", "ended"}
  /\ msgCount < MaxMsgs
  /\ \E c \in Contents : content' = c
  /\ msgCount' = msgCount + 1
  /\ hpc' = "fetch"
  /\ prompt' = ""
  /\ reply' = Undef
  /\ sent' = Undef
  /\ stored' = {}
  /\ qpc' = "idle"
  /\ qres' = Ret(Undef)
  /\ attempt' = 0
  /\ modelName' = NoModel
  /\ waitMs' = NoDelay
  /\ pendingSleep' = 0
  /\ gpc' = "idle"
  /\ gres' = Ret(Undef)
  /\ gCalls' = 0
  /\ gPrompt' = ""
  /\ nReq' = 0
  /\ prev' = NoPrev
  /\ owed' = 0
  /\ primaryFailed' = FALSE
  /\ UNCHANGED <<static, caches>>

\* Where queryGemini first awaits.
StartPc(vv) ==
  CASE vv = "p3" -> "request"
    [] vv = "p4" -> "ensure"
    [] vv = "p6b" -> "done"
    [] OTHER -> "token"

\* await fetchRecentMemories(...), the prompt, and the call of queryGemini.
\* A failed query yields no memories; in p3 it rejects and the handler ends.
FetchRecentMemories ==
  /\ hpc = "fetch"
  /\ \E mems \in FetchedMemories(v), dbError \in BOOLEAN :
       IF dbError /\ v = "p3"
       THEN /\ hpc' = "ended"
            /\ UNCHANGED <<prompt, qpc, qres>>
       ELSE /\ hpc' = "query"
            /\ prompt' = BuildPrompt(v, DisplayName, content,
                                     IF dbError THEN <<>> ELSE mems)
            /\ qpc' = StartPc(v)
            /\ qres' = IF v = "p6b" THEN Ret(Str(Placeholder(prompt'))) ELSE qres
  /\ UNCHANGED <<static, caches, msgCount, content, reply, sent, stored, loopvars, gvars,
                 reqvars, primaryFailed>>

\* What the 429 branch reads from a response: the delay of its details, waitMs
\* after the header, and whether the message says the model has no free quota.
Read429(resp) ==
  [d |-> HintMs(resp), waitMs |-> WaitMs(resp), quota |-> SaysNoFreeQuota(ErrMsg(resp))]

\* The readings of the rate-limit responses a variant tells apart.
RateLimited ==
  [vv \in Variants |->
     IF vv = "p4" THEN {Read429(resp) : resp \in Responses429}
     ELSE {Read429([json |-> Null, txt |-> "Too Many Requests", hdr |-> ""])}]

\* The outcomes of the success path over the response bodies.
Replies == [vv \in Variants |-> {ExtractReply(vv, data) : data \in GeminiBodies}]

\* ensureModel's result over the listings, with whether models were listed.
EnsureOutcomes ==
  [vv \in Discovery |-> [e \in EnvModels |->
     {[model |-> ensureModelResolve(vv, names, e), listed |-> Len(names) > 0] :
        names \in Listings}]]

\* tryFallbackModel's result over the listings.
FallbackOutcomes ==
  [e \in EnvModels |->
     {[model |-> tryFallbackModel(names, e), listed |-> Len(names) > 0] :
        names \in Listings}]

(***************************************************************************)
(* queryGemini.                                                            *)
(***************************************************************************)
\* A failure path without retries: the call ends at once with the fixed text.
Fail_GivesUp(att) ==
  /\ qpc' = "done"
  /\ qres' = Ret(Str(GeminiApology(v)))
  /\ primaryFailed' = TRUE
  /\ UNCHANGED <<pendingSleep, gpc, gCalls, gPrompt>>

\* The failure path of queryGemini's try block, taken on attempt att: the
\* inner fallback calls queryGitHubAI with
\* the prompt, part_004 backs off while attempts remain and leaves the loop
\* after the last, and the others end with null, a fixed text or the
\* rethrown error.
Fail(att) ==
  CASE v \in InnerFallback ->
         /\ qpc' = "github"
         /\ gpc' = "call"
         /\ gCalls' = gCalls + 1
         /\ gPrompt' = prompt
         /\ primaryFailed' = TRUE
         /\ UNCHANGED <<qres, pendingSleep>>
    [] v = "p4" ->
         IF att < MAX_ATTEMPTS
         THEN /\ qpc' = "sleep"
              /\ pendingSleep' \in {Backoff(att, j) : j \in RandomBelow(500)}
              /\ UNCHANGED <<qres, gpc, gCalls, gPrompt, primaryFailed>>
         ELSE /\ qpc' = "done"
              /\ qres' = Ret(Str(GeminiApology(v)))
              /\ primaryFailed' = TRUE
              /\ UNCHANGED <<pendingSleep, gpc, gCalls, gPrompt>>
    [] OTHER ->
         /\ qpc' = "done"
         /\ qres' = (CASE OnPrimaryFailure(v) = "null" -> Ret(Null)
                       [] OnPrimaryFailure(v) = "throw" -> Throw
                       [] OTHER -> Ret(Str(GeminiApology(v))))
         /\ primaryFailed' = TRUE
         /\ UNCHANGED <<pendingSleep, gpc, gCalls, gPrompt>>

\* A step of queryGemini that completes without entering the failure path.
NoFail == UNCHANGED <<gpc, gCalls, gPrompt, primaryFailed>>

\* await getAccessToken(): the cached token while it is fresh, else a token
\* from the auth client, which may fail or yield none.
GetAccessToken ==
  /\ qpc = "token"
  /\ \E outcome \in {"cached", "fetched", "failed"} :
       /\ outcome = "cached" => cachedToken # ""
       /\ IF outcome = "failed"
          THEN /\ Fail(attempt)
               /\ UNCHANGED cachedToken
          ELSE /\ cachedToken' = "tok"
               /\ qpc' = IF v = "p6a" THEN "ensure" ELSE "request"
               /\ NoFail
               /\ UNCHANGED <<qres, pendingSleep>>
  /\ UNCHANGED <<static, cachedModelName, hvars, gres, attempt, modelName, waitMs,
                 reqvars>>

\* What a listing leaves in the token cache: listAvailableModels fetched a
\* token if it returned models, and may have failed before or after if not.
TokenAfterListing(listed) ==
  IF listed THEN {"tok"} ELSE {cachedToken, "tok"}

\* A loop head that does not count the attempt.
Continue_Uncounted ==
  /\ qpc' = "token"
  /\ UNCHANGED <<attempt, qres, primaryFailed>>

\* The loop head, run by whatever step continues the loop:
\* while (attempt < MAX_ATTEMPTS) { attempt++; ... }, and the text returned
\* when the loop is left.
Continue ==
  IF attempt < MAX_ATTEMPTS
  THEN /\ attempt' = attempt + 1
       /\ qpc' = "token"
       /\ UNCHANGED <<qres, primaryFailed>>
  ELSE /\ qpc' = "done"
       /\ qres' = Ret(Str(GeminiApology(v)))
       /\ primaryFailed' = TRUE
       /\ UNCHANGED attempt

\* await ensureModel() before the first request.
EnsureModel ==
  /\ qpc = "ensure"
  /\ v \in Discovery
  /\ IF cachedModelName # NoModel
     THEN /\ modelName' = cachedModelName
          /\ UNCHANGED caches
     ELSE \E o \in EnsureOutcomes[v][envModel] :
            /\ cachedModelName' = o.model
            /\ modelName' = o.model
            /\ cachedToken' \in TokenAfterListing(o.listed)
  /\ IF v = "p4" THEN Continue
     ELSE qpc' = "request" /\ UNCHANGED <<qres, attempt, primaryFailed>>
  /\ UNCHANGED <<static, hvars, waitMs, pendingSleep, gvars, reqvars>>

\* await sleep(ms); continue
Sleep ==
  /\ qpc = "sleep"
  /\ owed' = Max(0, owed - pendingSleep)
  /\ pendingSleep' = 0
  /\ Continue
  /\ UNCHANGED <<static, caches, hvars, modelName, waitMs, gvars, nReq, prev>>

\* Bookkeeping of one generateContent request and of the response to it.
Issue(kind, d, quota) ==
  /\ nReq' = nReq + 1
  /\ owed' = Max(0, d)
  /\ prev' = [kind |-> kind, d |-> d, quota |-> quota,
               model |-> IF quota THEN modelName ELSE NoModel]

\* await fetch(url, ...) and the handling of its response: a rejected call,
\* 200 with a body, 429, 404, or another error status.
GenerateContent ==
  /\ qpc = "request"
  /\ \/ /\ Issue("exception", NoDelay, FALSE)
        /\ Fail(attempt)
        /\ UNCHANGED <<cachedModelName, waitMs>>
     \/ \E r \in Replies[v] :
          /\ Issue("ok", NoDelay, FALSE)
          /\ IF r.thrown
             THEN Fail(attempt)
             ELSE /\ qres' = r
                  /\ qpc' = "done"
                  /\ NoFail
                  /\ UNCHANGED pendingSleep
          /\ UNCHANGED <<cachedModelName, waitMs>>
     \/ \E resp \in RateLimited[v] :
          /\ Issue("429", resp.d, resp.quota)
          /\ IF v = "p4"
             THEN /\ IF resp.quota
                     THEN /\ qpc' = "fallback"
                          /\ waitMs' = resp.waitMs
                          /\ UNCHANGED pendingSleep
                     ELSE /\ qpc' = "sleep"
                          /\ pendingSleep' \in {SleepAfter429(resp.waitMs, attempt, j) :
                                                    j \in RandomBelow(1000)}
                          /\ UNCHANGED waitMs
                  /\ NoFail
                  /\ UNCHANGED qres
             ELSE /\ Fail(attempt)
                  /\ UNCHANGED waitMs
          /\ UNCHANGED cachedModelName
     \/ /\ Issue("404", NoDelay, FALSE)
        /\ IF v \in Discovery
           THEN /\ cachedModelName' = NoModel
                /\ qpc' = "refresh"
                /\ NoFail
                /\ UNCHANGED <<qres, pendingSleep>>
           ELSE /\ Fail(attempt)
                /\ UNCHANGED cachedModelName
        /\ UNCHANGED waitMs
     \/ /\ Issue("error", NoDelay, FALSE)
        /\ Fail(attempt)
        /\ UNCHANGED <<cachedModelName, waitMs>>
  /\ UNCHANGED <<static, cachedToken, hvars, gres, attempt, modelName>>

\* const newModel = await tryFallbackModel() and the rest of the 429 branch:
\* switch model and sleep 1000..1500 ms, or sleep as for any other 429.
TryFallbackModel ==
  /\ qpc = "fallback"
  /\ v = "p4"
  /\ \E o \in FallbackOutcomes[envModel] :
       LET newModel == o.model
       IN /\ cachedToken' \in TokenAfterListing(o.listed)
          /\ IF Switches(newModel, modelName)
             THEN /\ modelName' = newModel
                  /\ cachedModelName' = newModel
                  /\ pendingSleep' \in {SwitchSleep(j) : j \in RandomBelow(500)}
             ELSE /\ pendingSleep' \in {SleepAfter429(waitMs, attempt, j) :
                                        j \in RandomBelow(1000)}
                  /\ UNCHANGED <<modelName, cachedModelName>>
  /\ qpc' = "sleep"
  /\ waitMs' = NoDelay
  /\ UNCHANGED <<static, hvars, qres, attempt, gvars, reqvars, primaryFailed>>

\* A 404 branch that tries again whatever ensureModel resolves.
Refresh404_AlwaysRetry ==
  /\ qpc = "refresh"
  /\ v \in Discovery
  /\ \E o \in EnsureOutcomes[v][envModel] :
       /\ cachedModelName' = o.model
       /\ cachedToken' \in TokenAfterListing(o.listed)
       /\ modelName' = o.model
       /\ IF v = "p4" THEN Continue
          ELSE qpc' = "retry" /\ UNCHANGED <<qres, attempt, primaryFailed>>
       /\ UNCHANGED <<pendingSleep, gpc, gCalls, gPrompt>>
  /\ UNCHANGED <<static, hvars, gres, waitMs, reqvars>>

\* The 404 branch: cachedModelName was cleared, ensureModel lists again, and
\* a different model is tried (part_004: next attempt, part_006: one retry).
Refresh404 ==
  /\ qpc = "refresh"
  /\ v \in Discovery
  /\ \E o \in EnsureOutcomes[v][envModel] :
       LET refreshed == o.model
       IN /\ cachedModelName' = refreshed
          /\ cachedToken' \in TokenAfterListing(o.listed)
          /\ IF refreshed # modelName
             THEN /\ modelName' = refreshed
                  /\ IF v = "p4" THEN Continue
                     ELSE qpc' = "retry" /\ UNCHANGED <<qres, attempt, primaryFailed>>
                  /\ UNCHANGED <<pendingSleep, gpc, gCalls, gPrompt>>
             ELSE /\ Fail(attempt)
                  /\ UNCHANGED <<modelName, attempt>>
  /\ UNCHANGED <<static, hvars, gres, waitMs, reqvars>>

\* part_006: the single retry against the refreshed model.
RetryGenerateContent ==
  /\ qpc = "retry"
  /\ v = "p6a"
  /\ \/ /\ \E kind \in {"exception", "429", "404", "error"} : Issue(kind, NoDelay, FALSE)
        /\ Fail(attempt)
     \/ \E r \in Replies[v] :
          /\ Issue("ok", NoDelay, FALSE)
          /\ qres' = r
          /\ qpc' = "done"
          /\ NoFail
          /\ UNCHANGED pendingSleep
  /\ UNCHANGED <<static, caches, hvars, gres, attempt, modelName, waitMs>>

(***************************************************************************)
(* queryGitHubAI and the rest of the handler.                              *)
(***************************************************************************)
\* queryGitHubAI's outcomes over a rejected call and the response bodies.
GitHubOutcomes ==
  [vv \in HasSecondary |->
     {GitHubResult(vv, TRUE, Null)} \cup {GitHubResult(vv, FALSE, out) : out \in GitHubBodies}]

\* queryGitHubAI(prompt); the inner fallback returns its result from
\* queryGemini.
QueryGitHubAI ==
  /\ gpc = "call"
  /\ \/ /\ v \in InnerFallback /\ ~githubToken
        /\ gres' = Ret(Str(NoTokenText(v)))
     \/ /\ v \in InnerFallback => githubToken
        /\ \E r \in GitHubOutcomes[v] : gres' = r
  /\ gpc' = "done"
  /\ IF qpc = "github"
     THEN qpc' = "done" /\ qres' = gres'
     ELSE UNCHANGED <<qpc, qres>>
  /\ UNCHANGED <<static, caches, hvars, loopvars, gCalls, gPrompt, reqvars, primaryFailed>>

\* A handler that hands the bare message text to queryGitHubAI.
CallGitHub_BareText ==
  /\ hpc' = "fallback"
  /\ gpc' = "call"
  /\ gCalls' = gCalls + 1
  /\ gPrompt' = content

\* The handler's call of queryGitHubAI(fullPrompt).
CallGitHub ==
  /\ hpc' = "fallback"
  /\ gpc' = "call"
  /\ gCalls' = gCalls + 1
  /\ gPrompt' = prompt

\* The handler after await queryGemini(...), whose locals are gone: the reply, the handler-side
\* fallback of part_000, part_002 and part_005, and the mood heuristics of
\* app.js, which call toLowerCase on a truthy reply.
HandlerResume ==
  /\ hpc = "query"
  /\ qpc = "done"
  /\ IF qres.thrown
     THEN /\ IF v = "p5" THEN CallGitHub
             ELSE hpc' = "ended" /\ UNCHANGED <<gpc, gCalls, gPrompt>>
          /\ UNCHANGED reply
     ELSE /\ reply' = qres.val
          /\ IF v \in {"p0", "p2"} /\ ~Truthy(qres.val)
             THEN CallGitHub
             ELSE /\ hpc' = IF v = "a2" /\ Truthy(qres.val) /\ qres.val.t # "str"
                            THEN "ended" ELSE "store"
                  /\ UNCHANGED <<gpc, gCalls, gPrompt>>
  /\ qpc' = "idle"
  /\ qres' = Ret(Undef)
  /\ attempt' = 0
  /\ modelName' = NoModel
  /\ pendingSleep' = 0
  /\ nReq' = 0
  /\ prev' = NoPrev
  /\ owed' = 0
  /\ UNCHANGED <<static, caches, msgCount, content, prompt, sent, stored, waitMs, gres,
                 primaryFailed>>

\* The handler after await queryGitHubAI(...).
HandlerAfterFallback ==
  /\ hpc = "fallback"
  /\ gpc = "done"
  /\ IF gres.thrown
     THEN hpc' = "ended" /\ UNCHANGED reply
     ELSE /\ hpc' = "store"
          /\ reply' = IF v \in {"p0", "p2"} /\ ~Truthy(gres.val)
                      THEN Str(HandlerApology(v)) ELSE gres.val
  /\ UNCHANGED <<static, caches, msgCount, content, prompt, sent, stored, qpc, qres,
                 loopvars,
                 gvars, reqvars, primaryFailed>>

\* await storeMemory(...) of the message (app.js: of message and reply); a
\* failed insert is logged, except in part_003 where it rejects.
StoreMemory ==
  /\ hpc = "store"
  /\ \E dbError \in BOOLEAN :
       /\ hpc' = IF dbError /\ v = "p3" THEN "ended"
                 ELSE IF v \in OneRow THEN "reply" ELSE "storeReply"
       /\ stored' = IF dbError THEN stored
                    ELSE IF v \in OneRow THEN {"message", "reply"} ELSE {"message"}
  /\ UNCHANGED <<static, caches, msgCount, content, prompt, reply, sent, qpc, qres,
                 loopvars, gvars, reqvars, primaryFailed>>

\* await storeMemory(..., `Luna: ${reply}`)
StoreMemoryReply ==
  /\ hpc = "storeReply"
  /\ \E dbError \in BOOLEAN :
       /\ hpc' = IF dbError /\ v = "p3" THEN "ended" ELSE "reply"
       /\ stored' = IF dbError THEN stored ELSE stored \cup {"reply"}
  /\ UNCHANGED <<static, caches, msgCount, content, prompt, reply, sent, qpc, qres,
                 loopvars, gvars, reqvars, primaryFailed>>

\* await message.reply(reply)
Reply ==
  /\ hpc = "reply"
  /\ sent' = IF Sendable(reply) THEN reply ELSE Undef
  /\ hpc' = "ended"
  /\ UNCHANGED <<static, caches, msgCount, content, prompt, reply, stored, qpc, qres, loopvars,
                 gvars, reqvars, primaryFailed>>

Next ==
  \/ NewMessage
  \/ FetchRecentMemories
  \/ GetAccessToken
  \/ EnsureModel
  \/ Sleep
  \/ GenerateContent
  \/ TryFallbackModel
  \/ Refresh404
  \/ RetryGenerateContent
  \/ QueryGitHubAI
  \/ HandlerResume
  \/ HandlerAfterFallback
  \/ StoreMemory
  \/ StoreMemoryReply
  \/ Reply

Spec == Init /\ [][Next]_vars

\* The retrying variant alone.
InitRetrying == Init /\ v = "p4"

NextRetrying ==
  \/ NewMessage
  \/ FetchRecentMemories
  \/ GetAccessToken
  \/ EnsureModel
  \/ Sleep
  \/ GenerateContent
  \/ TryFallbackModel
  \/ Refresh404
  \/ HandlerResume
  \/ StoreMemory
  \/ StoreMemoryReply
  \/ Reply

SpecRetrying == InitRetrying /\ [][NextRetrying]_vars

\* The single-retry variant alone.
InitSingleRetry == Init /\ v = "p6a"

NextSingleRetry ==
  \/ NewMessage
  \/ FetchRecentMemories
  \/ GetAccessToken
  \/ EnsureModel
  \/ GenerateContent
  \/ Refresh404
  \/ RetryGenerateContent
  \/ HandlerResume
  \/ StoreMemory
  \/ StoreMemoryReply
  \/ Reply

SpecSingleRetry == InitSingleRetry /\ [][NextSingleRetry]_vars

(***************************************************************************)
(* The handler up to its first await: trigger policy and per-user          *)
(* cooldown.  It runs to completion, so it is one step; the handlers it    *)
(* lets through then run interleaved.                                      *)
(***************************************************************************)
\* The variants whose handler consults the cooldown map.
CooldownVariants == {"a2", "a3", "p1", "p3", "p4", "p5", "p6a", "p6b"}

\* USER_COOLDOWN_MS (USER_COOLDOWN in part_003; app.js takes 7000 by default)
USER_COOLDOWN_MS(vv) == IF vv = "a2" THEN 7000 ELSE 15000

\* Clock advances in one run.
MaxTicks == 3

\* Accepted messages in one run.
MaxAccepted == 3

\* By how much the clock advances between two steps.
Ticks(vv) == {1, USER_COOLDOWN_MS(vv) - 1, USER_COOLDOWN_MS(vv)}

Tick ==
  /\ nTicks < MaxTicks
  /\ \E dt \in Ticks(v) : now' = now + dt
  /\ nTicks' = nTicks + 1
  /\ UNCHANGED <<v, clientvars, callvars, ddvars, COOLDOWN, accepted, running, replied, memvars, tokvars,
                 purevars>>

\* A cooldown map that is never written.
SetCooldown_Forgets(cd, u, t) == cd

\* COOLDOWN.set(message.author.id, Date.now())
SetCooldown(cd, u, t) == [cd EXCEPT ![u] = t]

\* Date.now() - last < USER_COOLDOWN_MS, with last = COOLDOWN.get(id) || 0
InCooldown(vv, cd, u, t) == t - cd[u] < USER_COOLDOWN_MS(vv)

\* A handler without the test of message.author.bot.
UpToFirstAwait_AnswersBots(u, bot, dup, trig, late) ==
  LET accepts == ~(v = "a2" /\ dup) /\ trig
  IN /\ Len(accepted) < MaxAccepted
     /\ accepted' = IF accepts THEN Append(accepted, [user |-> u, at |-> now])
                    ELSE accepted
     /\ running' = IF accepts THEN running + 1 ELSE running
     /\ UNCHANGED <<v, clientvars, callvars, now, COOLDOWN, nTicks, replied, memvars, tokvars>>

\* messageCreate for a message of user u, up to the first await.  bot: the
\* author is a bot; dup: the message id is in handledMessages (app.js);
\* trig: the trigger policy lets the message through (mention, name, or the
\* random draw); late: the clock moved on between the two reads of Date.now().
UpToFirstAwait(u, bot, dup, trig, late) ==
  LET stamp == IF v = "p3" THEN now ELSE now + late
      cools == v \in CooldownVariants
      passes == ~bot /\ ~(v = "a2" /\ dup) /\ ~(cools /\ InCooldown(v, COOLDOWN, u, now))
      \* part_005 draws after the cooldown was written, the others before
      writes == cools /\ passes /\ (v = "p5" \/ trig)
      \* part_000 and part_002 answer every message
      accepts == passes /\ (trig \/ v \in {"p0", "p2"})
  IN /\ Len(accepted) < MaxAccepted
     /\ COOLDOWN' = IF writes THEN SetCooldown(COOLDOWN, u, stamp) ELSE COOLDOWN
     /\ now' = IF writes THEN stamp ELSE now
     /\ accepted' = IF accepts THEN Append(accepted, [user |-> u, at |-> now])
                    ELSE accepted
     /\ running' = IF accepts THEN running + 1 ELSE running
     /\ UNCHANGED <<v, clientvars, callvars, nTicks, replied, memvars, tokvars>>

\* messageCreate where no message is marked as handled (every delivery is of
\* a message id of its own, or dup tells what handledMessages holds).
MessageCreate(u, bot, dup, trig, late) ==
  /\ UpToFirstAwait(u, bot, dup, trig, late)
  /\ UNCHANGED <<ddvars, purevars>>

Deliver ==
  \E u \in Users, bot \in BOOLEAN, dup \in BOOLEAN, trig \in BOOLEAN, late \in {0, 1} :
    MessageCreate(u, bot, dup, trig, late)

\* An accepted handler runs through its awaits and ends.
HandlerEnds ==
  /\ running > 0
  /\ running' = running - 1
  /\ UNCHANGED <<v, clientvars, callvars, ddvars, now, nTicks, COOLDOWN, accepted, replied, memvars, tokvars,
                 purevars>>

InitCooldown ==
  Init /\ v \in CooldownVariants /\ envModel = "" /\ (v \in InnerFallback => ~githubToken)

NextCooldown ==
  \/ Tick
  \/ Deliver
  \/ HandlerEnds

SpecCooldown == InitCooldown /\ [][NextCooldown]_vars

\* C9: in the variants that use the cooldown map, any two accepted messages
\* of one user were accepted at least USER_COOLDOWN_MS apart, under every
\* interleaving of the handlers.
C9_AcceptedApart ==
  \A i \in 1..Len(accepted) : \A j \in (i + 1)..Len(accepted) :
    accepted[i].user = accepted[j].user
      => accepted[j].at - accepted[i].at >= USER_COOLDOWN_MS(v)

\* Two messages of one user accepted while the first one's handler still runs.
C9_Witness ==
  /\ Len(accepted) >= 2
  /\ accepted[1].user = accepted[2].user
  /\ running >= 2

(***************************************************************************)
(* The trigger policy of app.js: messageMentionsBot.  A message is         *)
(* [mentions, nick, content]: whether message.mentions.users has the bot,  *)
(* message.member's nickname ("" for none) and the text.                   *)
(***************************************************************************)
\* The bot's assumed name.
BOT_NAME == "luna"

Nicknames == {"", "Bob"}

KeywordContents == {"", "hey LUNA, hi", "bob is here"}

Messages == [mentions : BOOLEAN, nick : Nicknames, content : KeywordContents]

\* function messageMentionsBot(message)
messageMentionsBot(m) ==
  LET nick == ToLower(m.nick)
  IN IF m.content = "" THEN FALSE
     ELSE IF m.mentions THEN TRUE
     ELSE IF nick # "" /\ Includes(ToLower(m.content), nick) THEN TRUE
     ELSE Includes(ToLower(m.content), BOT_NAME)

\* messageMentionsBot of every message.
Triggers == [m \in Messages |-> messageMentionsBot(m)]

\* The message mentions the bot directly or its text contains the bot's name.
NamesBot(m) == m.mentions \/ Includes(ToLower(m.content), BOT_NAME)

\* messageCreate of app.js for message m of user u.
KeywordMessageCreate(u, bot, dup, trig, late) ==
  /\ v = "a2"
  /\ MessageCreate(u, bot, dup, trig, late)

KeywordDeliver ==
  \E m \in Messages :
    LET trig == Triggers[m]
    IN \E u \in Users, bot \in BOOLEAN, dup \in BOOLEAN, late \in {0, 1} :
         KeywordMessageCreate(u, bot, dup, trig, late)

InitKeyword == InitCooldown /\ v = "a2"

NextKeyword ==
  \/ Tick
  \/ KeywordDeliver
  \/ HandlerEnds

SpecKeyword == InitKeyword /\ [][NextKeyword]_vars

\* C22: in the keyword variant a message that neither mentions the bot
\* directly nor contains the bot's name is not answered: its handler stops
\* before the cooldown check, so the cooldown map, the accepted messages and
\* the running handlers stay as they were, whoever the author is and
\* whatever the author's nickname is.
C22_AnsweredOnlyWhenNamed ==
  [][\A m \in Messages : ~NamesBot(m) =>
       \A u \in Users, bot \in BOOLEAN, dup \in BOOLEAN, late \in {0, 1} :
         KeywordMessageCreate(u, bot, dup, Triggers[m], late)
           => UNCHANGED <<COOLDOWN, accepted, running>>]_vars

(***************************************************************************)
(* The dedupe guard of app.js: handledMessages and the timers that empty   *)
(* it.  A message id may be delivered more than once (gateway resends).    *)
(***************************************************************************)
\* DEDUPE_TTL_MS, by default.
DEDUPE_TTL_MS == 60000

MessageIds == {"m1", "m2"}

\* The author of each message.
AuthorOf == [id \in MessageIds |-> IF id = "m1" THEN "u1" ELSE "u2"]

\* A markHandled that does not record the id.
markHandled_Forgets(id, t) ==
  /\ handledMessages' = handledMessages
  /\ timers' = timers
  /\ handled' = Append(handled, [id |-> id, at |-> t])

\* handledMessages.add(messageId); setTimeout(() => handledMessages.delete(messageId), DEDUPE_TTL_MS)
markHandled(id, t) ==
  /\ handledMessages' = handledMessages \cup {id}
  /\ timers' = timers \cup {[id |-> id, due |-> t + DEDUPE_TTL_MS]}
  /\ handled' = Append(handled, [id |-> id, at |-> t])

\* messageCreate of app.js for a delivery of message id, up to the first
\* await: the dedupe test reads handledMessages, and an accepted message is
\* marked right after the cooldown was written.
DedupeMessageCreate(id, bot, trig, late) ==
  LET u == AuthorOf[id]
      dup == id \in handledMessages
      accepts == ~bot /\ ~dup /\ trig /\ ~InCooldown(v, COOLDOWN, u, now)
  IN /\ v = "a2"
     /\ UpToFirstAwait(u, bot, dup, trig, late)
     /\ IF accepts THEN markHandled(id, now + late) ELSE UNCHANGED ddvars
     /\ UNCHANGED purevars

DedupeDeliver ==
  \E id \in MessageIds, bot \in BOOLEAN, trig \in BOOLEAN, late \in {0, 1} :
    DedupeMessageCreate(id, bot, trig, late)

\* A timer callback runs: () => handledMessages.delete(messageId).  It runs
\* no earlier than its due time.
TimerFires ==
  /\ \E t \in timers :
       /\ t.due <= now
       /\ handledMessages' = handledMessages \ {t.id}
       /\ timers' = timers \ {t}
  /\ UNCHANGED <<v, clientvars, callvars, cdvars, handled, memvars, tokvars, purevars>>

\* By how much the clock advances between two steps.
DedupeTicks == {1, USER_COOLDOWN_MS("a2"), DEDUPE_TTL_MS - USER_COOLDOWN_MS("a2"), DEDUPE_TTL_MS}

\* Time passes; the event loop runs a due timer before anything else, so the
\* clock does not pass a due time with the timer still pending.
DedupeTick ==
  /\ nTicks < MaxTicks
  /\ \E dt \in DedupeTicks :
       /\ \A t \in timers : now + dt <= t.due
       /\ now' = now + dt
  /\ nTicks' = nTicks + 1
  /\ UNCHANGED <<v, clientvars, callvars, ddvars, COOLDOWN, accepted, running, replied, memvars,
                 tokvars, purevars>>

InitDedupe == InitCooldown /\ v = "a2"

NextDedupe ==
  \/ DedupeTick
  \/ DedupeDeliver
  \/ TimerFires
  \/ HandlerEnds

SpecDedupe == InitDedupe /\ [][NextDedupe]_vars

\* The latest acceptance of message id, as an index of handled (0: none).
LastHandled(id) ==
  LET mine == {i \in 1..Len(handled) : handled[i].id = id}
  IN IF mine = {} THEN 0 ELSE CHOOSE i \in mine : \A j \in mine : j <= i

\* C24: in the dedupe variant, under every interleaving of deliveries, two
\* acceptances of one message id are at least DEDUPE_TTL_MS apart; the set
\* holds exactly the ids whose timer is pending, and the timer of an id is due
\* DEDUPE_TTL_MS after its latest acceptance, so an entry goes when
\* DEDUPE_TTL_MS has elapsed (as soon as the event loop runs the due timer)
\* and never earlier.
C24_HandledOncePerTtl ==
  /\ \A i \in 1..Len(handled) : \A j \in (i + 1)..Len(handled) :
       handled[i].id = handled[j].id => handled[j].at - handled[i].at >= DEDUPE_TTL_MS
  /\ handledMessages = {t.id : t \in timers}
  /\ \A t \in timers :
       LastHandled(t.id) # 0 /\ t.due = handled[LastHandled(t.id)].at + DEDUPE_TTL_MS
  /\ \A id \in MessageIds :
       (LastHandled(id) # 0 /\ id \notin handledMessages)
         => now >= handled[LastHandled(id)].at + DEDUPE_TTL_MS

\* A message id accepted a second time after its entry was removed, and
\* marked again.
C24_Witness ==
  /\ Len(handled) >= 2
  /\ handled[1].id = handled[2].id
  /\ handled[1].id \in handledMessages
  /\ Cardinality(timers) = 1

(***************************************************************************)
(* Messages written by bots.  Every delivery is recorded in args with the  *)
(* bot flag of its author.                                                 *)
(***************************************************************************)
\* Deliveries in one run.
MaxDeliveries == 3

\* The number of deliveries so far.
Deliveries == IF args.fn = "messageCreate" THEN args.n ELSE 0

\* messageCreate of any variant for a delivery of message id.
RecordedMessageCreate(id, bot, trig, late) ==
  LET u == AuthorOf[id]
      dup == id \in handledMessages
      marks == /\ v = "a2" /\ ~bot /\ ~dup /\ trig
               /\ ~InCooldown(v, COOLDOWN, u, now)
  IN /\ Deliveries < MaxDeliveries
     /\ UpToFirstAwait(u, bot, dup, trig, late)
     /\ IF marks THEN markHandled(id, now + late) ELSE UNCHANGED ddvars
     /\ args' = [fn |-> "messageCreate", bot |-> bot, n |-> Deliveries + 1]
     /\ UNCHANGED result

RecordedDeliver ==
  \E id \in MessageIds, bot \in BOOLEAN, trig \in BOOLEAN, late \in {0, 1} :
    RecordedMessageCreate(id, bot, trig, late)

InitBots == Init /\ envModel = "" /\ (v \in InnerFallback => ~githubToken)

NextBots ==
  \/ Tick
  \/ RecordedDeliver
  \/ HandlerEnds

SpecBots == InitBots /\ [][NextBots]_vars

\* C25: in every variant a message whose author is a bot, the bot itself
\* included, changes nothing: no completion request and no handler started,
\* no memory insert, no change of the cooldown map or of handledMessages, and
\* no reply.
C25_BotsAreIgnored ==
  [][(args' # args /\ args'.fn = "messageCreate" /\ args'.bot)
       => UNCHANGED <<clientvars, COOLDOWN, accepted, running, replied, handledMessages,
                      timers, handled, memvars, tokvars, now>>]_vars

\* A bot's message was delivered after a user's message had been accepted.
C25_Witness ==
  /\ args.fn = "messageCreate" /\ args.bot /\ args.n >= 2
  /\ Len(accepted) >= 1 /\ running >= 1

(***************************************************************************)
(* The replies.  An accepted handler awaits the memory fetch and the       *)
(* completion call, which take any time, and then sends its reply.         *)
(***************************************************************************)
\* The accepted messages whose reply was sent.
Answered == {replied[k].msg : k \in 1..Len(replied)}

\* await message.reply(reply) in the handler of the i-th accepted message.
MessageReply(i) ==
  /\ i \in 1..Len(accepted)
  /\ i \notin Answered
  /\ replied' = Append(replied, [msg |-> i, user |-> accepted[i].user, at |-> now])
  /\ running' = running - 1
  /\ UNCHANGED <<v, clientvars, callvars, ddvars, now, nTicks, COOLDOWN, accepted, memvars, tokvars, purevars>>

SendReply == \E i \in 1..MaxAccepted : MessageReply(i)

InitReplies == InitCooldown /\ v \in {"a2", "p4"} /\ ~githubToken

NextReplies ==
  \/ Tick
  \/ Deliver
  \/ SendReply

SpecReplies == InitReplies /\ [][NextReplies]_vars

\* C21: for every user, any two replies sent to that user are sent at least
\* USER_COOLDOWN_MS apart, however long the completion calls of the handlers
\* that produce them take.
C21_RepliesApart ==
  \A i \in 1..Len(replied) : \A j \in (i + 1)..Len(replied) :
    replied[i].user = replied[j].user
      => replied[j].at - replied[i].at >= USER_COOLDOWN_MS(v)

(***************************************************************************)
(* The memory store.  A row is [id, user_id, created_at]; its content is   *)
(* told apart by its id.  created_at is CURRENT_TIMESTAMP, in seconds.     *)
(***************************************************************************)
\* Rows in the table.
MaxRows == 4

\* Seconds the database clock advances.
MaxSeconds == 2

\* The largest limit asked for.
MaxLimit == 3

TickSecond ==
  /\ seconds < MaxSeconds
  /\ seconds' = seconds + 1
  /\ UNCHANGED <<v, clientvars, callvars, ddvars, cdvars, tokvars, purevars, memories, sqlite_sequence,
                 fetched>>

\* An insert that replaces the user's latest row (INSERT OR REPLACE keyed by user).
storeMemory_Replacing ==
  /\ sqlite_sequence < MaxRows
  /\ \E u \in Users :
       LET mine == {i \in 1..Len(memories) : memories[i].user_id = u}
           row == [id |-> sqlite_sequence + 1, user_id |-> u, created_at |-> seconds]
       IN memories' = IF mine = {} THEN Append(memories, row)
                      ELSE [memories EXCEPT ![CHOOSE i \in mine : \A j \in mine : j <= i] = row]
  /\ sqlite_sequence' = sqlite_sequence + 1
  /\ UNCHANGED <<v, clientvars, callvars, ddvars, cdvars, tokvars, purevars, seconds, fetched>>

\* INSERT INTO memories (user_id,user_name,content) VALUES(?,?,?); a failed
\* insert is logged and leaves the table as it was.
storeMemory ==
  /\ sqlite_sequence < MaxRows
  /\ \E u \in Users, failed \in BOOLEAN :
       /\ memories' = IF failed THEN memories
                      ELSE Append(memories, [id |-> sqlite_sequence + 1, user_id |-> u,
                                             created_at |-> seconds])
       /\ sqlite_sequence' = IF failed THEN sqlite_sequence ELSE sqlite_sequence + 1
  /\ UNCHANGED <<v, clientvars, callvars, ddvars, cdvars, tokvars, purevars, seconds, fetched>>

\* The ids of the rows of user u.
RowsOf(table, u) == {i \in 1..Len(table) : table[i].user_id = u}

\* SELECT ... WHERE user_id=? ORDER BY created_at DESC: every order of u's
\* rows with created_at descending; rows of one second come in any order.
OrderByCreatedAtDesc(table, u) ==
  LET mine == RowsOf(table, u)
      k == Cardinality(mine)
  IN {o \in [1..k -> mine] :
        /\ \A i, j \in 1..k : i # j => o[i] # o[j]
        /\ \A i, j \in 1..k : i < j => table[o[i]].created_at >= table[o[j]].created_at}

Reverse(q) == [i \in 1..Len(q) |-> q[Len(q) + 1 - i]]

\* rows.map(r => r.content).reverse() of the first `limit` rows; [] when the
\* query fails.
fetchRecentMemories ==
  /\ \E u \in Users, limit \in 1..MaxLimit, failed \in BOOLEAN :
       \E o \in OrderByCreatedAtDesc(memories, u) :
         fetched' = [user |-> u, limit |-> limit, size |-> Len(memories), ok |-> ~failed,
                     rows |-> IF failed THEN <<>>
                              ELSE Reverse(SubSeq(o, 1, Min(limit, Len(o))))]
  /\ UNCHANGED <<v, clientvars, callvars, ddvars, cdvars, tokvars, purevars, seconds, memories,
                 sqlite_sequence>>

InitMemory == Init /\ v = "p4" /\ envModel = ""

NextMemory ==
  \/ TickSecond
  \/ storeMemory
  \/ fetchRecentMemories

SpecMemory == InitMemory /\ [][NextMemory]_vars

\* The ids of the n most recently inserted rows of u, oldest first.
RECURSIVE MostRecent(_, _, _)
MostRecent(table, u, n) ==
  IF n = 0 \/ Len(table) = 0 THEN <<>>
  ELSE IF table[Len(table)].user_id = u
       THEN Append(MostRecent(SubSeq(table, 1, Len(table) - 1), u, n - 1), Len(table))
       ELSE MostRecent(SubSeq(table, 1, Len(table) - 1), u, n)

\* The rows of user u, in insertion order.
RecordsOf(table, u) ==
  LET Mine(r) == r.user_id = u
  IN SelectSeq(table, Mine)

IsPrefixOf(a, b) == Len(a) <= Len(b) /\ SubSeq(b, 1, Len(a)) = a

\* C11: no operation updates or deletes a memory record: every step leaves
\* each user's records an extension, by appended records, of what was stored
\* before, so their number never decreases.
C11_AppendOnly ==
  [][\A u \in Users : IsPrefixOf(RecordsOf(memories, u), RecordsOf(memories', u))]_vars

\* Both users have records, one of them several, and a fetch has read them.
C11_Witness ==
  /\ Len(RecordsOf(memories, "u1")) >= 2
  /\ Len(RecordsOf(memories, "u2")) >= 1
  /\ fetched.ok /\ Len(fetched.rows) >= 2

\* C10: after any sequence of storeMemory calls, fetchRecentMemories(u, N)
\* returns at most N records, all of u: the N most recently inserted records
\* of u, from the oldest to the newest insertion, also when several of them
\* carry the same created_at.
C10_MostRecentOldestFirst ==
  fetched.ok =>
    fetched.rows = MostRecent(SubSeq(memories, 1, fetched.size), fetched.user, fetched.limit)

(***************************************************************************)
(* The forget command of the variant that has one: a bulk delete by user   *)
(* id on the memories table.                                               *)
(***************************************************************************)
\* The largest number of forget commands in one behaviour.
MaxForgets == 2

\* The number of forget commands so far.
ForgetCount == IF args.fn = "forget" THEN args.n ELSE 0

\* A forget that empties the table (DELETE FROM memories without WHERE).
forget_Everyone(u) ==
  /\ ForgetCount < MaxForgets
  /\ memories' = <<>>
  /\ args' = [fn |-> "forget", user |-> u, n |-> ForgetCount + 1]
  /\ UNCHANGED <<v, clientvars, callvars, ddvars, cdvars, tokvars, seconds, sqlite_sequence, fetched, result>>

\* DELETE FROM memories WHERE user_id = ?; args records the command.
forget(u) ==
  /\ ForgetCount < MaxForgets
  /\ LET Others(r) == r.user_id # u
     IN memories' = SelectSeq(memories, Others)
  /\ args' = [fn |-> "forget", user |-> u, n |-> ForgetCount + 1]
  /\ UNCHANGED <<v, clientvars, callvars, ddvars, cdvars, tokvars, seconds, sqlite_sequence, fetched, result>>

Forget == \E u \in Users : forget(u)

InitForget == InitMemory

NextForget ==
  \/ TickSecond
  \/ storeMemory
  \/ Forget

SpecForget == InitForget /\ [][NextForget]_vars

\* C16: a forget command for user u removes every memory record of u and
\* leaves the records of every other user as they were, whatever inserts and
\* forgets came before.
C16_ForgetRemovesOnlyThatUser ==
  [][(args' # args /\ args'.fn = "forget")
       => /\ RecordsOf(memories', args'.user) = <<>>
          /\ \A w \in Users \ {args'.user} :
               RecordsOf(memories', w) = RecordsOf(memories, w)]_vars

\* A forget has deleted at least two rows of its user while the other user's
\* rows are still stored.
C16_Witness ==
  /\ args.fn = "forget"
  /\ RecordsOf(memories, args.user) = <<>>
  /\ sqlite_sequence >= Len(memories) + 2
  /\ \E w \in Users \ {args.user} : Len(RecordsOf(memories, w)) >= 1

(***************************************************************************)
(* The access-token cache (getAccessToken) under concurrent callers.  A    *)
(* call runs to its first await in one step: it returns the cached token,  *)
(* or starts a fetch that completes in a later step.                       *)
(***************************************************************************)
\* 55 * 60 * 1000
TOKEN_TTL_MS == 3300000

\* 60 * 1000
TOKEN_MARGIN_MS == 60000

\* Token fetches that complete in one run.
MaxFetches == 3

\* For how long after a fetch the cached token is returned.
FreshFor == TOKEN_TTL_MS - TOKEN_MARGIN_MS

\* The n-th token the credential provider issues.
TokenName(n) == "tok" \o SubSeq(DigitChars, n + 1, n + 1)

\* A cache test without the expiry.
TokenIsFresh_Forever(tok, expires, t) == tok # ""

\* cachedToken && now < tokenExpiresAt - 60 * 1000
TokenIsFresh(tok, expires, t) == tok # "" /\ t < expires - TOKEN_MARGIN_MS

TokenTick ==
  /\ nTicks < MaxTicks
  /\ \E dt \in {1, FreshFor - 1, FreshFor} : now' = now + dt
  /\ nTicks' = nTicks + 1
  /\ UNCHANGED <<v, clientvars, callvars, ddvars, COOLDOWN, accepted, running, replied, memvars, tokvars,
                 purevars>>

Fetching == {c \in Callers : tokenCalls[c].pc = "fetching"}

\* getAccessToken up to its first await.
CallGetAccessToken(c) ==
  /\ tokenCalls[c].pc # "fetching"
  /\ IF TokenIsFresh(cachedToken, tokenExpiresAt, now)
     THEN tokenCalls' = [tokenCalls EXCEPT ![c] =
            [pc |-> "returned", at |-> now, seen |-> Len(fetches), contacted |-> FALSE,
             got |-> cachedToken]]
     ELSE /\ Len(fetches) + Cardinality(Fetching) < MaxFetches
          /\ tokenCalls' = [tokenCalls EXCEPT ![c] =
               [pc |-> "fetching", at |-> now, seen |-> Len(fetches), contacted |-> TRUE,
                got |-> ""]]
  /\ UNCHANGED <<v, clientvars, callvars, ddvars, cdvars, memvars, purevars, tokenExpiresAt, fetches>>

\* What the credential provider may answer: a new token, the token it issued
\* last (the auth client keeps its own), or nothing (a rejection, no token).
ProviderAnswers ==
  {TokenName(Len(fetches) + 1), ""}
    \cup (IF Len(fetches) > 0 THEN {fetches[Len(fetches)].token} ELSE {})

\* A getAccessToken that drops the cached token before it throws.
CompleteTokenFetch_ClearsOnFailure(c) ==
  /\ tokenCalls[c].pc = "fetching"
  /\ \E token \in ProviderAnswers :
       IF token = ""
       THEN /\ tokenCalls' = [tokenCalls EXCEPT ![c].pc = "failed"]
            /\ cachedToken' = ""
            /\ tokenExpiresAt' = 0
            /\ UNCHANGED fetches
       ELSE /\ cachedToken' = token
            /\ tokenExpiresAt' = now + TOKEN_TTL_MS
            /\ fetches' = Append(fetches, [t |-> now, token |-> token])
            /\ tokenCalls' = [tokenCalls EXCEPT ![c].pc = "returned", ![c].got = token]
  /\ UNCHANGED <<config, cachedModelName, hvars, qpc, qres, loopvars, gvars, reqvars,
                 primaryFailed, cdvars, callvars, ddvars, memvars, purevars>>

\* The rest of getAccessToken once the auth client has answered: a thrown
\* fetch or an answer without a token throws before the cache is written.
CompleteTokenFetch(c) ==
  /\ tokenCalls[c].pc = "fetching"
  /\ \E token \in ProviderAnswers :
       IF token = ""
       THEN /\ tokenCalls' = [tokenCalls EXCEPT ![c].pc = "failed"]
            /\ UNCHANGED <<cachedToken, tokenExpiresAt, fetches>>
       ELSE /\ cachedToken' = token
            /\ tokenExpiresAt' = now + TOKEN_TTL_MS
            /\ fetches' = Append(fetches, [t |-> now, token |-> token])
            /\ tokenCalls' = [tokenCalls EXCEPT ![c].pc = "returned", ![c].got = token]
  /\ UNCHANGED <<config, cachedModelName, hvars, qpc, qres, loopvars, gvars, reqvars,
                 primaryFailed, cdvars, callvars, ddvars, memvars, purevars>>

TokenCall == \E c \in Callers : CallGetAccessToken(c)

TokenFetched == \E c \in Callers : CompleteTokenFetch(c)

InitToken == Init /\ v \in {"a2", "p4"} /\ envModel = "" /\ ~githubToken

NextToken ==
  \/ TokenTick
  \/ TokenCall
  \/ TokenFetched

SpecToken == InitToken /\ [][NextToken]_vars

\* The cache holds what the fetch that completed last stored.
CacheIsLastFetch ==
  Len(fetches) > 0 =>
    /\ cachedToken = fetches[Len(fetches)].token
    /\ tokenExpiresAt = fetches[Len(fetches)].t + TOKEN_TTL_MS

\* C13: after a fetch completed at time t with a token, every call made before
\* t + 55 min - 60 s returns that token without contacting the credential
\* provider, and a call made at or after that instant, before any later fetch
\* completed, contacts the provider; a completed fetch replaces the cached
\* token and its expiry.
C13_ReusedUntilExpiry ==
  /\ CacheIsLastFetch
  /\ \A c \in Callers :
       LET k == tokenCalls[c]
       IN \A i \in 1..k.seen :
            IF k.at < fetches[i].t + FreshFor
            THEN ~k.contacted /\ k.got = fetches[i].token
            ELSE (\A j \in 1..k.seen : fetches[j].t < fetches[i].t + FreshFor)
                   => k.contacted

\* C13, amended: the same, counted from the fetch that completed last before
\* the call, whose token and expiry are the cached ones.
C13_ReusedUntilExpiryOfLastFetch ==
  /\ CacheIsLastFetch
  /\ \A c \in Callers :
       LET k == tokenCalls[c]
       IN /\ (k.pc # "none" /\ k.seen = 0) => k.contacted
          /\ k.seen > 0 =>
               IF k.at < fetches[k.seen].t + FreshFor
               THEN ~k.contacted /\ k.got = fetches[k.seen].token
               ELSE k.contacted

\* One caller was served from the cache, another fetched again after the expiry.
C13_Witness ==
  \E c1, c2 \in Callers :
    /\ tokenCalls[c1].pc = "returned" /\ ~tokenCalls[c1].contacted
    /\ tokenCalls[c2].pc = "returned" /\ tokenCalls[c2].contacted
    /\ tokenCalls[c2].seen > 0
    /\ tokenCalls[c1].at >= tokenCalls[c2].at

(***************************************************************************)
(* pickPreferredModel (part_004) applied to listings and overrides.        *)
(***************************************************************************)
\* Models in a listing handed to pickPreferredModel.
MaxPickListing == 3

PickModelNames == ModelNames \cup {"models/Gemini-Ultra"}

PickListings == UNION {[1..n -> PickModelNames] : n \in 1..MaxPickListing}

PickEnvModels == {"", "gemini-2.5-pro", "models/gemini-2.0-flash", "gemini-nano"}

PickPreferredModel ==
  /\ args = NoArgs
  /\ \E names \in PickListings, e \in PickEnvModels :
       /\ args' = [fn |-> "pickPreferredModel", names |-> names, envModel |-> e]
       /\ result' = pickPreferredModel(names, e)
  /\ UNCHANGED <<v, clientvars, callvars, ddvars, cdvars, memvars, tokvars>>

InitPick == Init /\ v = "p4" /\ envModel = ""

NextPick == PickPreferredModel

SpecPick == InitPick /\ [][NextPick]_vars

\* The positions of the listed models that match the override.
OverrideHits(names, e) ==
  {i \in 1..Len(names) : e # "" /\ NameMatches(names[i], Normalized(e))}

\* The entries of the preference order that some listed model contains.
KeysHit(names) ==
  {k \in 1..Len(preferredKeys) : \E i \in 1..Len(names) : Includes(names[i], preferredKeys[k])}

Least(S) == CHOOSE i \in S : \A j \in S : i <= j

\* The positions of the listed models that contain the earliest entry hit.
KeyHits(names) ==
  {i \in 1..Len(names) : Includes(names[i], preferredKeys[Least(KeysHit(names))])}

\* The positions of the listed models whose name contains "gemini" in any case.
GeminiHits(names) == {i \in 1..Len(names) : Includes(ToLower(names[i]), "gemini")}

\* C14: pickPreferredModel returns the first listed model matching the
\* override if one is configured and matched, otherwise the first listed model
\* containing the earliest preference entry that any listed model contains,
\* otherwise the first listed model.
C14_PicksListedModel ==
  args.fn = "pickPreferredModel" =>
    LET names == args.names
    IN result =
         IF OverrideHits(names, args.envModel) # {}
         THEN names[Least(OverrideHits(names, args.envModel))]
         ELSE IF KeysHit(names) # {} THEN names[Least(KeyHits(names))]
         ELSE names[1]

\* C14, amended: as above, but when no preference entry is matched the result
\* is the first listed model whose name contains "gemini" in any letter case,
\* and the first listed model only when there is none.
C14_PicksListedModelOrGemini ==
  args.fn = "pickPreferredModel" =>
    LET names == args.names
    IN /\ \E i \in 1..Len(names) : result = names[i]
       /\ result =
            IF OverrideHits(names, args.envModel) # {}
            THEN names[Least(OverrideHits(names, args.envModel))]
            ELSE IF KeysHit(names) # {} THEN names[Least(KeyHits(names))]
            ELSE IF GeminiHits(names) # {} THEN names[Least(GeminiHits(names))]
            ELSE names[1]

\* A listing whose second model is preferred over its first, with an override
\* that no listed model matches.
C14_Witness ==
  /\ args.fn = "pickPreferredModel"
  /\ args.envModel = "gemini-nano"
  /\ Len(args.names) >= 2
  /\ result = args.names[2]
  /\ result # args.names[1]
  /\ KeysHit(args.names) # {}

(***************************************************************************)
(* Properties of the completion client.                                    *)
(***************************************************************************)
\* C1: in every variant queryGemini completes by returning a value: it never
\* throws or rejects to the message handler, whatever the token fetch, the
\* listing, the primary call and the secondary provider do.
C1_NeverThrows == qpc = "done" => ~qres.thrown

\* C2: whenever the completion client returns (queryGemini with its inner
\* fallback, and the handler-side fallback where the handler does it), the
\* value is a non-empty string, for every response body.
C2_NonEmptyString ==
  /\ (qpc = "done" /\ ~qres.thrown /\ v \notin HandlerFallback) => NonEmptyString(qres.val)
  /\ hpc = "store" => NonEmptyString(reply)

\* A queryGemini call of the retrying variant is in progress.
InCall == v = "p4" /\ qpc \notin {"idle", "done"}

\* A measure of the work a call of the retrying variant has left: the
\* attempts not yet started, and the steps left in the current one.
Rank ==
  IF qpc \in {"idle", "done"} THEN 0
  ELSE (MAX_ATTEMPTS - attempt) * 5
       + (CASE qpc = "ensure" -> 5
            [] qpc = "token" -> 4
            [] qpc = "request" -> 3
            [] qpc \in {"fallback", "refresh"} -> 2
            [] OTHER -> 1)

\* C3: in the retrying variant one queryGemini call issues at most 5
\* generateContent requests, whatever mix of 429, 404, other statuses,
\* exceptions and model switches occurs, and it terminates once every call
\* and sleep it starts returns: each of its steps strictly lowers a
\* non-negative measure, so it takes finitely many.
C3_BoundedRequestsAndTermination ==
  [][/\ nReq' <= MAX_ATTEMPTS
     /\ InCall => (Rank' < Rank /\ Rank' >= 0)]_vars

\* A call of the retrying variant that ended after 5 requests.
C3_Witness == v = "p4" /\ qpc = "done" /\ nReq = MAX_ATTEMPTS /\ primaryFailed

\* C4: in the retrying variant, when all attempts against the primary
\* provider have failed, the secondary provider is invoked with the prompt
\* before any apology is returned to the handler.
C4_SecondaryBeforeApology ==
  (v = "p4" /\ qpc = "done" /\ primaryFailed) => (gCalls >= 1 /\ gPrompt = prompt)

\* The 429 before the request about to be issued made the call switch model.
Switched == prev.quota /\ modelName # prev.model

\* C5 as stated: in the retrying variant, after a 429 whose details carry a
\* parsable retry delay d > 0, the next generateContent request is issued no
\* earlier than d ms later, whatever the 429's message says.
C5_WaitsRetryDelay ==
  [][(v = "p4" /\ nReq' = nReq + 1 /\ prev.kind = "429" /\ prev.d > 0) => owed = 0]_vars

\* C5 amended: the retry delay is waited out unless the 429 said the model
\* has no free quota and the call switched to another model; after such a
\* switch the next request follows at least 1000 ms later.
C5_WaitsRetryDelayUnlessSwitched ==
  [][(v = "p4" /\ nReq' = nReq + 1 /\ prev.kind = "429" /\ prev.d > 0)
       => IF Switched THEN owed <= Max(0, prev.d - 1000) ELSE owed = 0]_vars

\* A request about to be issued after a 429 that carried a delay and a
\* no-free-quota message but led to no switch: the delay has been waited out.
C5_Witness ==
  /\ v = "p4" /\ qpc = "request"
  /\ prev.kind = "429" /\ prev.d > 0 /\ prev.quota /\ ~Switched
  /\ owed = 0

\* C6: in the retrying variant, after a 429 saying the current model has no
\* free quota, the next generateContent request goes to a model that differs
\* from the refused one and matches an entry of FALLBACK_MODEL_CANDIDATES.
C6_SwitchesToCandidate ==
  [][(v = "p4" /\ nReq' = nReq + 1 /\ prev.kind = "429" /\ prev.quota)
       => (modelName # prev.model /\ MatchesCandidate(modelName))]_vars

\* The handler is past the point where it falls back to queryGitHubAI.
AfterFallbackPoint == hpc \in {"fallback", "store", "storeReply", "reply", "ended"}

\* C7: in the variants with a secondary provider, when the primary provider
\* fails for a message, queryGitHubAI is invoked exactly once for it, with the
\* prompt given to the primary provider, which contains the message text.
C7_SecondaryOnceSamePrompt ==
  /\ gCalls <= 1
  /\ (v \in HasSecondary /\ primaryFailed /\ (v \in InnerFallback \/ AfterFallbackPoint))
       => (gCalls = 1 /\ gPrompt = prompt /\ Includes(gPrompt, content))

\* A handler-side fallback that ran after the primary provider failed.
C7_Witness ==
  /\ v \in HandlerFallback /\ primaryFailed /\ hpc = "ended"
  /\ gCalls = 1 /\ gPrompt = prompt

\* C8: in every variant each message that passed the trigger policy and the
\* cooldown is answered with a reply sent to the user, also when both
\* providers fail: when its handler has ended a text has been sent.
C8_EveryAcceptedAnswered == hpc = "ended" => Sendable(sent)

\* C12: in the single-retry variant a 404 clears the cached model and leads
\* to one re-resolution; a further request follows only if the re-resolved
\* model differs from the failed one, and it is the last: a call issues at
\* most 2 requests, and a failed retry ends the call with the apology.
C12_SingleRetryOn404 ==
  [][v = "p6a" =>
       /\ nReq' <= 2
       /\ (qpc = "request" /\ nReq' = nReq + 1 /\ prev'.kind = "404")
            => (qpc' = "refresh" /\ cachedModelName' = NoModel)
       /\ qpc' = "refresh" => (qpc = "request" /\ prev'.kind = "404")
       /\ qpc = "refresh"
            => \/ /\ qpc' = "retry"
                  /\ modelName' # modelName
                  /\ cachedModelName' = modelName'
                  /\ nReq' = nReq
               \/ /\ qpc' = "done"
                  /\ cachedModelName' = modelName
                  /\ nReq' = nReq
                  /\ qres' = Ret(Str(GeminiApology(v)))
       /\ qpc = "retry"
            => /\ qpc' = "done"
               /\ nReq' = nReq + 1
               /\ prev'.kind # "ok" => qres' = Ret(Str(GeminiApology(v)))]_vars

\* The retry against the re-resolved model failed and the call ended with the apology.
C12_Witness ==
  /\ v = "p6a" /\ qpc = "done" /\ nReq = 2 /\ prev.kind = "error"
  /\ qres = Ret(Str(GeminiApology(v)))

\* The fixed texts the client returns in place of a reply.
ApologyTexts ==
  {GeminiApology(vv) : vv \in Variants} \cup {GitHubApology(vv) : vv \in Variants}
    \cup {NoTokenText(vv) : vv \in Variants}
    \cup {"Sorry, I could not parse the AI response."}

\* C15: when the primary provider answers with a success status, the call
\* ends there with a returned text, whatever the shape of the body: the
\* secondary provider is not invoked and no apology string is returned.
C15_SuccessStatusYieldsBodyText ==
  [][(nReq' = nReq + 1 /\ prev'.kind = "ok")
       => /\ qpc' = "done"
          /\ ~qres'.thrown
          /\ gCalls' = gCalls
          /\ ~primaryFailed'
          /\ ~(qres'.val.t = "str" /\ qres'.val.s \in ApologyTexts)]_vars

\* The call of the retrying variant is at a step from which another
\* generateContent request can follow.
PrimaryGoesOn == qpc \in {"ensure", "token", "request", "sleep", "fallback", "refresh"}

\* C17: in the retrying variant one queryGemini call invalidates and
\* re-resolves the cached model because of a 404 at most once: when the
\* request that follows a 404 is answered 404 again, the cached model is left
\* alone and the call issues no further request, also when the re-resolved
\* model was the one that had not been found.
C17_RefreshesOnceOn404 ==
  [][(v = "p4" /\ prev.kind = "404" /\ nReq' = nReq + 1 /\ prev'.kind = "404")
       => (cachedModelName' = cachedModelName /\ ~PrimaryGoesOn')]_vars

\* C18 as stated: in the retrying variant a response with a non-success
\* status other than 429 and 404 ends the primary attempts of the call: no
\* further generateContent request follows it.
C18_OtherStatusEndsPrimary ==
  [][(v = "p4" /\ nReq' = nReq + 1 /\ prev'.kind = "error") => ~PrimaryGoesOn']_vars

\* C18 amended: such a response ends the attempt it answers, not the call.
\* While fewer than 5 attempts were made the call sleeps the exponential
\* backoff of the attempt, min(60000, 2^attempt * 1000 + jitter) with jitter
\* below 500 ms, and then issues a further request; after the fifth attempt
\* it ends with the fixed apology and no further request.
C18_OtherStatusEndsAttempt ==
  [][(v = "p4" /\ nReq' = nReq + 1 /\ prev'.kind = "error")
       => IF attempt < MAX_ATTEMPTS
          THEN /\ qpc' = "sleep"
               /\ pendingSleep' >= Backoff(attempt, 0)
               /\ pendingSleep' < Backoff(attempt, 500) + 1
               /\ attempt' = attempt
               /\ ~primaryFailed'
          ELSE /\ qpc' = "done"
               /\ qres' = Ret(Str(GeminiApology(v)))
               /\ primaryFailed']_vars

\* A further request is about to be issued after an error status and the
\* backoff that followed it.
C18_Witness ==
  /\ v = "p4" /\ prev.kind = "error" /\ qpc = "request"
  /\ nReq >= 1 /\ attempt = nReq + 1 /\ pendingSleep = 0

\* C19: in the retrying variant, when queryGemini switches model after a
\* no-free-quota 429, it waits at least 1000 ms and less than 1500 ms before
\* the next request, which is less than the exponential backoff of every
\* attempt (2000 ms or more), and the switch still consumes an attempt: the
\* request to the new model is made on the next of the 5 attempts, and after
\* a switch on the fifth attempt the call ends without a further request.
C19_SwitchWaitsShortAndCounts ==
  [][/\ (v = "p4" /\ qpc = "fallback" /\ modelName' # modelName)
          => /\ qpc' = "sleep"
             /\ pendingSleep' >= 1000 /\ pendingSleep' < 1500
             /\ \A att \in 1..MAX_ATTEMPTS : \A j \in RandomBelow(500) :
                  /\ Backoff(att, j) >= 2000
                  /\ pendingSleep' < Backoff(att, j)
             /\ attempt' = attempt
     /\ (v = "p4" /\ qpc = "sleep" /\ Switched)
          => IF attempt < MAX_ATTEMPTS
             THEN attempt' = attempt + 1 /\ qpc' = "token" /\ nReq' = nReq
             ELSE qpc' = "done" /\ nReq' = nReq]_vars

\* The request to the model switched to is about to be issued, on the
\* attempt after the one that was answered 429.
C19_Witness ==
  /\ v = "p4" /\ qpc = "request" /\ Switched /\ prev.kind = "429"
  /\ attempt >= 2 /\ nReq < attempt

\* C20: in every variant that uses the cooldown map, the stored timestamp of
\* a user changes only in a step that accepts a message of that user for a
\* reply; a message dropped by the trigger policy, the random draw or the
\* cooldown leaves the map as it was.
C20_CooldownChangesOnlyOnAccept ==
  [][\A u \in Users :
       COOLDOWN'[u] # COOLDOWN[u]
         => /\ Len(accepted') = Len(accepted) + 1
            /\ accepted'[Len(accepted')].user = u]_vars

\* C23: whenever a reply has been sent for a handled message, a record of the
\* message's text and a record of the reply were inserted into the memory
\* store before it was sent, also when the database is not open yet or an
\* insert fails.
C23_StoredBeforeReply ==
  Sendable(sent) => stored = {"message", "reply"}

\* C26 as stated: in the retrying variant every wait between two attempts is
\* at most 60 000 ms, wherever its length comes from.
C26_EveryWaitCapped == v = "p4" => pendingSleep <= BACKOFF_CAP_MS

\* C26 amended: a wait computed by the exponential backoff, or made after a
\* model switch, is at most 60 000 ms; a wait longer than that follows a 429
\* and is the delay that response asked for (the retry delay of its details,
\* else its Retry-After header), which is not capped.
C26_BackoffCappedHintNot ==
  [][(v = "p4" /\ pendingSleep' # pendingSleep /\ pendingSleep' > BACKOFF_CAP_MS)
       => /\ prev'.kind = "429"
          /\ \E r \in RateLimited[v] :
               r.d = prev'.d /\ r.waitMs = pendingSleep']_vars

\* The call sleeps a retry delay of more than 60 000 ms.
C26_Witness ==
  /\ v = "p4" /\ qpc = "sleep" /\ prev.kind = "429"
  /\ pendingSleep > BACKOFF_CAP_MS /\ pendingSleep = prev.d

\* C27: in the retrying variant, once the last permitted attempt of a call
\* has failed, the call returns its apology without a further wait, whatever
\* the failure was: on the fifth attempt no sleep is started.
C27_NoWaitAfterLastAttempt ==
  v = "p4" /\ attempt = MAX_ATTEMPTS => qpc # "sleep"

(***************************************************************************)
(* Several queryGemini calls of part_004 in flight.  cachedModelName is    *)
(* shared; modelName and attempt are locals of each call.                  *)
(***************************************************************************)
\* The models the listings of the concurrent calls offer: the first two
\* preferences.
SharedModels == {"models/gemini-2.5-flash", "models/gemini-2.5-pro"}

\* The models ensureModel and tryFallbackModel may come up with (GEMINI_MODEL
\* is not set); tryFallbackModel may also find none.
ModelsEnsured == {o.model : o \in EnsureOutcomes["p4"][""]} \cap SharedModels

ModelsFallenBackTo ==
  {o.model : o \in FallbackOutcomes[""]} \cap (SharedModels \cup {NoModel})

\* What a step of one call leaves alone besides the shared model cache.
AroundModelCalls ==
  <<config, cachedToken, hvars, qpc, qres, loopvars, gvars, reqvars, primaryFailed,
    cdvars, ddvars, storeCalls, memvars, tokvars, purevars>>

\* let modelName = await ensureModel(), up to its await: the cached model if
\* there is one, else the models are listed.
StartQueryGemini(c) ==
  /\ modelCalls[c].pc = "none"
  /\ modelCalls' = [modelCalls EXCEPT
                      ![c] = IF cachedModelName # NoModel
                             THEN [pc |-> "request", modelName |-> cachedModelName,
                                   attempt |-> 0]
                             ELSE [pc |-> "listing", modelName |-> NoModel, attempt |-> 0]]
  /\ UNCHANGED <<cachedModelName, switchedTo, lastRequest, AroundModelCalls>>

\* ensureModel after listAvailableModels: cachedModelName = chosen.
ModelsListed(c) ==
  /\ modelCalls[c].pc = "listing"
  /\ \E chosen \in ModelsEnsured :
       /\ cachedModelName' = chosen
       /\ modelCalls' = [modelCalls EXCEPT ![c].pc = "request", ![c].modelName = chosen]
  /\ UNCHANGED <<switchedTo, lastRequest, AroundModelCalls>>

\* One attempt: the request to the call's modelName and the handling of the
\* response up to the next await.
SharedGenerateContent(c) ==
  LET call == modelCalls[c]
      again == IF call.attempt + 1 < MAX_ATTEMPTS THEN "request" ELSE "done"
  IN /\ call.pc = "request"
     /\ call.attempt < MAX_ATTEMPTS
     /\ lastRequest' = [caller |-> c, model |-> call.modelName, inForce |-> switchedTo]
     /\ \E kind \in {"ok", "429", "quota", "404", "error"} :
          /\ modelCalls' = [modelCalls EXCEPT
                              ![c].attempt = call.attempt + 1,
                              ![c].pc = CASE kind = "ok" -> "done"
                                          [] kind = "quota" -> "fallback"
                                          [] kind = "404" -> "refresh"
                                          [] OTHER -> again]
          /\ cachedModelName' = IF kind = "404" THEN NoModel ELSE cachedModelName
          /\ switchedTo' = IF kind = "404" THEN NoModel ELSE switchedTo
     /\ UNCHANGED AroundModelCalls

\* The no-free-quota branch after tryFallbackModel: the switch writes the
\* call's modelName and the shared cache.
SharedTryFallbackModel(c) ==
  LET call == modelCalls[c]
      again == IF call.attempt < MAX_ATTEMPTS THEN "request" ELSE "done"
  IN /\ call.pc = "fallback"
     /\ \E newModel \in ModelsFallenBackTo :
          IF Switches(newModel, call.modelName)
          THEN /\ cachedModelName' = newModel
               /\ switchedTo' = newModel
               /\ modelCalls' = [modelCalls EXCEPT ![c].pc = again, ![c].modelName = newModel]
          ELSE /\ modelCalls' = [modelCalls EXCEPT ![c].pc = again]
               /\ UNCHANGED <<cachedModelName, switchedTo>>
     /\ UNCHANGED <<lastRequest, AroundModelCalls>>

\* The 404 branch after its ensureModel: the cache is resolved again.
SharedRefresh404(c) ==
  LET call == modelCalls[c]
      again == IF call.attempt < MAX_ATTEMPTS THEN "request" ELSE "done"
  IN /\ call.pc = "refresh"
     /\ \E refreshed \in (IF cachedModelName # NoModel THEN {cachedModelName}
                           ELSE ModelsEnsured) :
          /\ cachedModelName' = refreshed
          /\ modelCalls' = [modelCalls EXCEPT ![c].pc = again, ![c].modelName = refreshed]
     /\ UNCHANGED <<switchedTo, lastRequest, AroundModelCalls>>

ModelCallStep ==
  \E c \in Callers :
    \/ StartQueryGemini(c)
    \/ ModelsListed(c)
    \/ SharedGenerateContent(c)
    \/ SharedTryFallbackModel(c)
    \/ SharedRefresh404(c)

InitShared == Init /\ v = "p4" /\ envModel = ""

NextShared == ModelCallStep

SpecShared == InitShared /\ [][NextShared]_vars

\* C28: in the retrying variant with several calls in flight, once a call
\* has replaced the shared cached model after a no-free-quota error, every
\* generateContent request issued afterwards, by any call, goes to the new
\* model, until the cache is next switched or invalidated.
C28_RequestsUseSwitchedModel ==
  lastRequest.inForce # NoModel => lastRequest.model = lastRequest.inForce

(***************************************************************************)
(* The two storeMemory calls of concurrent handlers.  Each handler awaits   *)
(* its first insert before it issues the second, so the inserts of other    *)
(* handlers may fall in between.                                             *)
(***************************************************************************)
\* The variants whose handler stores the message and the reply as two rows
\* and that the concurrent handlers are run in.
TwoRecordVariants == {"p0", "p4"}

AroundStoreCalls ==
  <<v, clientvars, modelCalls, switchedTo, lastRequest, ddvars, cdvars, tokvars, purevars,
    seconds, fetched>>

\* One INSERT of storeMemory for user u; the id of the new row, or 0 when the
\* insert failed and was only logged.
Insert(u, failed) ==
  /\ sqlite_sequence < MaxRows
  /\ memories' = IF failed THEN memories
                 ELSE Append(memories, [id |-> sqlite_sequence + 1, user_id |-> u,
                                        created_at |-> seconds])
  /\ sqlite_sequence' = IF failed THEN sqlite_sequence ELSE sqlite_sequence + 1

InsertedId(failed) == IF failed THEN 0 ELSE sqlite_sequence + 1

\* await storeMemory(message.author.id, ..., message.content)
StoreMessage(c, u, failed) ==
  /\ storeCalls[c].pc = "none"
  /\ Insert(u, failed)
  /\ storeCalls' = [storeCalls EXCEPT ![c] = [pc |-> "message", user |-> u,
                                              msg |-> InsertedId(failed), rep |-> 0]]
  /\ UNCHANGED AroundStoreCalls

\* await storeMemory(message.author.id, ..., `Luna: ${reply}`)
StoreReply(c, failed) ==
  /\ storeCalls[c].pc = "message"
  /\ Insert(storeCalls[c].user, failed)
  /\ storeCalls' = [storeCalls EXCEPT ![c].pc = "done", ![c].rep = InsertedId(failed)]
  /\ UNCHANGED AroundStoreCalls

StoreStep ==
  \E c \in Callers, failed \in BOOLEAN :
    \/ \E u \in Users : StoreMessage(c, u, failed)
    \/ StoreReply(c, failed)

InitStoring == Init /\ v \in TwoRecordVariants /\ envModel = "" /\ ~githubToken

NextStoring == TickSecond \/ StoreStep

SpecStoring == InitStoring /\ [][NextStoring]_vars

\* The ids of the rows of user u in the order they were inserted.
HistoryOf(u) ==
  LET rows == SelectSeq(memories, LAMBDA r : r.user_id = u)
  IN [i \in 1..Len(rows) |-> rows[i].id]

\* C29: in the two-record variants, for every handled message whose two
\* inserts went through, the row of the user's text is immediately followed,
\* in that user's history, by the row of the reply to it, however the
\* handlers of one user interleave.
C29_ReplyFollowsMessage ==
  \A c \in Callers :
    LET call == storeCalls[c]
        h == HistoryOf(call.user)
    IN call.pc = "done" /\ call.msg # 0 /\ call.rep # 0
         => \E i \in 1..(Len(h) - 1) : h[i] = call.msg /\ h[i + 1] = call.rep

(***************************************************************************)
(* getAccessToken when the credential fetch fails.                          *)
(***************************************************************************)
\* C30: when the credential fetch of getAccessToken throws or yields no token,
\* getAccessToken throws and leaves cachedToken and tokenExpiresAt as they
\* were; the two are only ever written together, by a call whose fetch gave
\* a token, to that token and to 55 minutes from then.
C30_FailedFetchLeavesCache ==
  [][/\ \A c \in Callers :
          tokenCalls[c].pc = "fetching" /\ tokenCalls'[c].pc # "fetching"
            => \/ /\ tokenCalls'[c].pc = "failed"
                  /\ UNCHANGED <<cachedToken, tokenExpiresAt, fetches>>
               \/ /\ tokenCalls'[c].pc = "returned"
                  /\ tokenCalls'[c].got # ""
     /\ (cachedToken' # cachedToken \/ tokenExpiresAt' # tokenExpiresAt)
          => \E c \in Callers :
               /\ tokenCalls[c].pc = "fetching"
               /\ tokenCalls'[c].pc = "returned"
               /\ cachedToken' = tokenCalls'[c].got
               /\ tokenExpiresAt' = now + TOKEN_TTL_MS]_vars

\* A call whose fetch failed after an earlier fetch had filled the cache, with
\* the cache still holding that fetch's token and expiry.
C30_Witness ==
  \E c \in Callers :
    /\ tokenCalls[c].pc = "failed"
    /\ tokenCalls[c].seen > 0
    /\ cachedToken # ""
    /\ cachedToken = fetches[Len(fetches)].token
    /\ tokenExpiresAt = fetches[Len(fetches)].t + TOKEN_TTL_MS

====
